---- MODULE Spec2Model ----
(***************************************************************************)
(* The data-access layer of TMOJ-Database: the Mongoose collections and    *)
(* the DAO operations on them.  A stored document is a record with its     *)
(* internal row identifier _id; foreign keys hold the _id of their target, *)
(* array-valued relations are sequences of _id.  Every DAO method is one   *)
(* action; `last` holds the method the sequential caller awaits, its key   *)
(* arguments and what it returned or raised; `calls` holds the calls of    *)
(* addContestProblem that are between two of their awaits.                 *)
(***************************************************************************)
EXTENDS Integers, Sequences, FiniteSets, TLC

\* How many documents one run may create (each create takes a fresh _id).
MaxOid == 4

\* How many callers run addContestProblem side by side.
MaxCallers == 2
Callers == 1..MaxCallers

\* The value of an absent reference (null / undefined in the source).
NoRef == 0

\* Schema minima.
MinDuration == 300000
MinTimeLimit == 100
MinScore == 0

\* Public identifiers the callers use.
Usernames == {"alice_01"}
\* The usernames a patch may carry: a stored user's or another one.
PatchUsernames == Usernames \cup {"mallory"}
ProblemIds == {"p1", "p2"}
TestCaseIds == {"t1"}
ContestIds == {"c1"}
CollectionIds == {"col1"}
SubmissionIds == {"s1"}
AnnouncementIds == {"a1"}
Methods == {"Password"}

\* Strings whose whitespace matters are sequences of characters.
NameA == <<" ", "A">>
NameB == <<"B", " ">>

VARIABLES users, problems, testCases, contests, collections, submissions,
          announcements, authenticationDetails, nextOid, last, calls

db == <<users, problems, testCases, contests, collections, submissions,
        announcements, authenticationDetails>>
vars == <<users, problems, testCases, contests, collections, submissions,
          announcements, authenticationDetails, nextOid, last, calls>>

----------------------------------------------------------------------------
\* The store: queries and update operators.

\* The result of a query that matched nothing.
NullDoc == [_id |-> NoRef]

IsNull(doc) == doc._id = NoRef

Matching(coll, key, value) == {d \in coll : d[key] = value}

\* Model.findOne({key: value}): the first match in insertion order, or null.
FindOne(coll, key, value) ==
    LET m == Matching(coll, key, value)
    IN  IF m = {} THEN NullDoc
        ELSE CHOOSE d \in m : \A e \in m : d._id <= e._id

\* populate(path): the document a stored reference points to, or null.
Populate(coll, ref) == FindOne(coll, "_id", ref)

RECURSIVE Contains(_, _)
Contains(arr, x) ==
    IF arr = <<>> THEN FALSE
    ELSE IF Head(arr) = x THEN TRUE ELSE Contains(Tail(arr), x)

\* A plausible slip: $push instead of $addToSet.
Push(arr, x) == Append(arr, x)

\* {$addToSet: {path: x}}
AddToSet(arr, x) == IF Contains(arr, x) THEN arr ELSE Append(arr, x)

\* A plausible slip: $pop instead of $pull.
Pop(arr, x) == IF arr = <<>> THEN arr ELSE SubSeq(arr, 1, Len(arr) - 1)

\* {$pull: {path: x}}
Pull(arr, x) == SelectSeq(arr, LAMBDA y : y # x)

\* A delete that removes nothing.
DeleteNothing(coll, key, value) == coll

\* Model.deleteOne({key: value}): the collection without the first match.
DeleteOne(coll, key, value) ==
    LET d == FindOne(coll, key, value)
    IN  IF IsNull(d) THEN coll ELSE coll \ {d}

\* deletedDocument.deletedCount of that deleteOne.
DeletedCount(coll, key, value) ==
    IF IsNull(FindOne(coll, key, value)) THEN 0 ELSE 1

\* document.update(...) and findOneAndUpdate write one document in place.
Replace(coll, old, new) == (coll \ {old}) \cup {new}

RECURSIVE TrimLeft(_)
TrimLeft(s) ==
    IF s # <<>> /\ Head(s) = " " THEN TrimLeft(Tail(s)) ELSE s

RECURSIVE TrimRight(_)
TrimRight(s) ==
    IF s # <<>> /\ s[Len(s)] = " " THEN TrimRight(SubSeq(s, 1, Len(s) - 1))
    ELSE s

\* trimStringSetter: value.trim()
trimStringSetter(value) == TrimRight(TrimLeft(value))

\* The setters a schema runs on the paths of a write.
Setter(path, value) ==
    IF path \in {"displayName", "description", "subject", "content"}
    THEN trimStringSetter(value) ELSE value

\* findOneAndUpdate(conditions, patch): the paths of the patch the schema
\* knows are set (through their setters), the others are dropped; no
\* validator runs.
ApplyPatch(doc, patch) ==
    [f \in DOMAIN doc |->
        IF f \in DOMAIN patch THEN Setter(f, patch[f]) ELSE doc[f]]

\* `delete obj.field` for each of the fields.
Without(obj, fields) == [f \in (DOMAIN obj) \ fields |-> obj[f]]

----------------------------------------------------------------------------
\* What a DAO method gives back.

RetVoid == [kind |-> "void"]
RetNull == [kind |-> "null"]
RetCount(n) == [kind |-> "count", count |-> n]
RetEntity(e) == [kind |-> "entity", entity |-> e]

Outcome(op, a, b, err, ret) ==
    [op |-> op, a |-> a, b |-> b, err |-> err, ret |-> ret]

NoError == "none"

\* No call is outstanding: the caller awaits each method before calling
\* the next one.
NoCall == Outcome("idle", "", "", NoError, RetVoid)
Idle == last.op = "idle"

\* A caller of addContestProblem that is not inside a call, and holds no
\* session.
NotCalled ==
    [pc |-> "idle", contestId |-> "", problemId |-> "",
     contestDocument |-> NullDoc, problemDocument |-> NullDoc,
     err |-> NoError, session |-> "none"]

\* The awaited promise has settled and the caller goes on.
Return ==
    /\ ~Idle
    /\ last' = NoCall
    /\ UNCHANGED <<calls, db, nextOid>>

\* A slip: the reference is looked up and reported before the owner.
CheckReferenceFirst(ownerDoc, refDoc, ownerErr, refErr) ==
    IF IsNull(refDoc) THEN refErr
    ELSE IF IsNull(ownerDoc) THEN ownerErr ELSE NoError

\* A slip: the referenced document is not looked up.
CheckOwnerOnly(ownerDoc, refDoc, ownerErr, refErr) ==
    IF IsNull(ownerDoc) THEN ownerErr ELSE NoError

\* The two existence checks of a relation mutation, in the order the
\* transaction body makes them: the owner, then the referenced document.
CheckOwnerThenReference(ownerDoc, refDoc, ownerErr, refErr) ==
    IF IsNull(ownerDoc) THEN ownerErr
    ELSE IF IsNull(refDoc) THEN refErr ELSE NoError

\* A slip: the owner is written although the reference check threw.
UpdateUnlessOwnerMissing(err, coll, ownerDoc, newOwnerDoc) ==
    IF IsNull(ownerDoc) THEN coll ELSE (coll \ {ownerDoc}) \cup {newOwnerDoc}

\* ownerDocument.update(...) as the last statement of a transaction body:
\* it runs only when neither check threw.
UpdateOwner(err, coll, ownerDoc, newOwnerDoc) ==
    IF err = NoError THEN Replace(coll, ownerDoc, newOwnerDoc) ELSE coll

\* A slip: the document is created before the checks are made.
PersistAlways(err, coll, doc) == coll \cup {doc}

\* Model.create(...) as the last statement of a transaction body: it runs
\* only when no check threw and the document passes validation.
Persist(err, coll, doc) == IF err = NoError THEN coll \cup {doc} ELSE coll

\* mongoose-unique-validator on a `unique: true` path.
IsUnique(coll, key, value) == Matching(coll, key, value) = {}

\* The first check that fails, in the order the body makes them.
FirstError(errs) ==
    LET bad == SelectSeq(errs, LAMBDA e : e # NoError)
    IN  IF bad = <<>> THEN NoError ELSE Head(bad)

Check(cond, err) == IF cond THEN NoError ELSE err

----------------------------------------------------------------------------
Init ==
    /\ users = {}
    /\ problems = {}
    /\ testCases = {}
    /\ contests = {}
    /\ collections = {}
    /\ submissions = {}
    /\ announcements = {}
    /\ authenticationDetails = {}
    /\ nextOid = 1
    /\ last = NoCall
    /\ calls = [i \in Callers |-> NotCalled]

----------------------------------------------------------------------------
\* UserDao

UserEntity(doc) ==
    IF IsNull(doc) THEN [username |-> "null", displayName |-> <<>>]
    ELSE [username |-> doc.username, displayName |-> doc.displayName]

UserValid(doc) ==
    /\ Len(doc.displayName) >= 1
    /\ IsUnique(users, "username", doc.username)

GetUserResult(username) ==
    LET document == FindOne(users, "username", username)
    IN  IF IsNull(document) THEN RetNull ELSE RetEntity(UserEntity(document))

GetUser(username) ==
    /\ Idle
    /\ last' = Outcome("getUser", username, "", NoError,
                       GetUserResult(username))
    /\ UNCHANGED <<calls, db, nextOid>>

AddUser(user) ==
    LET doc == [_id |-> nextOid, username |-> user.username,
                displayName |-> trimStringSetter(user.displayName)]
        err == Check(UserValid(doc), "ValidationError")
    IN  /\ Idle
        /\ err = NoError => nextOid <= MaxOid
        /\ users' = Persist(err, users, doc)
        /\ nextOid' = IF err = NoError THEN nextOid + 1 ELSE nextOid
        /\ last' = Outcome("addUser", user.username, "", err,
                           IF err = NoError THEN RetEntity(UserEntity(doc))
                           ELSE RetVoid)
        /\ UNCHANGED <<calls, problems, testCases, contests, collections,
                       submissions, announcements, authenticationDetails>>

\* updateUser removes the username from the patch.
UserPatch(user) == Without(user, {"username"})

UpdateUser(user) ==
    LET old == FindOne(users, "username", user.username)
    IN  /\ Idle
        /\ users' = IF IsNull(old) THEN users
                    ELSE Replace(users, old, ApplyPatch(old, UserPatch(user)))
        /\ last' = Outcome("updateUser", user.username, "", NoError,
                           IF IsNull(old) THEN RetNull
                           ELSE RetEntity(UserEntity(old)))
        /\ UNCHANGED <<calls, problems, testCases, contests, collections,
                       submissions, announcements, authenticationDetails,
                       nextOid>>

\* A slip: the delete cascades to the details the user holds.
DeleteUserCascade(username) ==
    /\ Idle
    /\ users' = DeleteOne(users, "username", username)
    /\ authenticationDetails' =
          {d \in authenticationDetails :
              d.ofUserId # FindOne(users, "username", username)._id}
    /\ last' = Outcome("deleteUser", username, "", NoError,
                       RetCount(DeletedCount(users, "username", username)))
    /\ UNCHANGED <<calls, problems, testCases, contests, collections,
                   submissions, announcements, nextOid>>

DeleteUser(username) ==
    /\ Idle
    /\ users' = DeleteOne(users, "username", username)
    /\ last' = Outcome("deleteUser", username, "", NoError,
                       RetCount(DeletedCount(users, "username", username)))
    /\ UNCHANGED <<calls, problems, testCases, contests, collections, submissions,
                   announcements, authenticationDetails, nextOid>>

Users == [username : Usernames, displayName : {NameA}]
UserUpdates == [username : Usernames, displayName : {NameB}]

----------------------------------------------------------------------------
\* TestCaseDao

\* TestCase.fromObject of a populated document.
TestCaseEntity(doc) == [testCaseId |-> doc.testCaseId, score |-> doc.score]

TestCaseValid(doc) ==
    /\ doc.score >= MinScore
    /\ IsUnique(testCases, "testCaseId", doc.testCaseId)

GetTestCaseResult(testCaseId) ==
    LET document == FindOne(testCases, "testCaseId", testCaseId)
    IN  IF IsNull(document) THEN RetNull
        ELSE RetEntity(TestCaseEntity(document))

GetTestCase(testCaseId) ==
    /\ Idle
    /\ last' = Outcome("getTestCase", testCaseId, "", NoError,
                       GetTestCaseResult(testCaseId))
    /\ UNCHANGED <<calls, db, nextOid>>

AddTestCase(testCase) ==
    LET doc == [_id |-> nextOid, testCaseId |-> testCase.testCaseId,
                score |-> testCase.score]
        err == Check(TestCaseValid(doc), "ValidationError")
    IN  /\ Idle
        /\ err = NoError => nextOid <= MaxOid
        /\ testCases' = Persist(err, testCases, doc)
        /\ nextOid' = IF err = NoError THEN nextOid + 1 ELSE nextOid
        /\ last' = Outcome("addTestCase", testCase.testCaseId, "", err,
                           IF err = NoError
                           THEN RetEntity(TestCaseEntity(doc)) ELSE RetVoid)
        /\ UNCHANGED <<calls, users, problems, contests, collections, submissions,
                       announcements, authenticationDetails>>

\* updateTestCase removes the id from the patch.
TestCasePatch(testCase) == Without(testCase, {"testCaseId"})

UpdateTestCase(testCase) ==
    LET old == FindOne(testCases, "testCaseId", testCase.testCaseId)
    IN  /\ Idle
        /\ testCases' =
              IF IsNull(old) THEN testCases
              ELSE Replace(testCases, old,
                           ApplyPatch(old, TestCasePatch(testCase)))
        /\ last' = Outcome("updateTestCase", testCase.testCaseId, "", NoError,
                           IF IsNull(old) THEN RetNull
                           ELSE RetEntity(TestCaseEntity(old)))
        /\ UNCHANGED <<calls, users, problems, contests, collections, submissions,
                       announcements, authenticationDetails, nextOid>>

DeleteTestCase(testCaseId) ==
    /\ Idle
    /\ testCases' = DeleteOne(testCases, "testCaseId", testCaseId)
    /\ last' = Outcome("deleteTestCase", testCaseId, "", NoError,
              RetCount(DeletedCount(testCases, "testCaseId", testCaseId)))
    /\ UNCHANGED <<calls, users, problems, contests, collections, submissions,
                   announcements, authenticationDetails, nextOid>>

NewTestCases == [testCaseId : TestCaseIds, score : {10}]
TestCaseUpdates == [testCaseId : TestCaseIds, score : {20}]

----------------------------------------------------------------------------
\* ProblemDao

\* populate of an array path: the documents found, in the array's order.
RECURSIVE PopulateMany(_, _)
PopulateMany(coll, refs) ==
    IF refs = <<>> THEN <<>>
    ELSE LET d == Populate(coll, Head(refs))
             rest == PopulateMany(coll, Tail(refs))
         IN  IF IsNull(d) THEN rest ELSE <<d>> \o rest

MapSeq(f(_), seq) == [i \in 1..Len(seq) |-> f(seq[i])]

\* Problem.fromObject of a document whose author is populated; testCases
\* holds the populated test cases when they were asked for.
ProblemEntity(doc, includeTestcases) ==
    LET entity == [problemId |-> doc.problemId,
                   author |-> UserEntity(Populate(users, doc.author)),
                   displayName |-> doc.displayName,
                   timeLimit |-> doc.timeLimit,
                   testCases |-> MapSeq(TestCaseEntity,
                                   PopulateMany(testCases, doc.testCases))]
    IN  IF includeTestcases THEN entity ELSE Without(entity, {"testCases"})

ProblemValid(doc) ==
    /\ Len(doc.displayName) >= 1
    /\ doc.timeLimit >= MinTimeLimit
    /\ IsUnique(problems, "problemId", doc.problemId)

GetProblemResult(problemId, includeTestcases) ==
    LET document == FindOne(problems, "problemId", problemId)
    IN  IF IsNull(document) THEN RetNull
        ELSE RetEntity(ProblemEntity(document, includeTestcases))

GetProblem(problemId, includeTestcases) ==
    /\ Idle
    /\ last' = Outcome("getProblem", problemId, "", NoError,
                       GetProblemResult(problemId, includeTestcases))
    /\ UNCHANGED <<calls, db, nextOid>>

AddProblem(problem) ==
    LET userDocument == FindOne(users, "username", problem.authorUsername)
        doc == [_id |-> nextOid, problemId |-> problem.problemId,
                author |-> userDocument._id,
                displayName |-> trimStringSetter(problem.displayName),
                timeLimit |-> problem.timeLimit,
                testCases |-> <<>>]
        err == FirstError(<<
                 Check(~IsNull(userDocument), "NoSuchUserError"),
                 Check(ProblemValid(doc), "ValidationError")>>)
    IN  /\ Idle
        /\ err = NoError => nextOid <= MaxOid
        /\ problems' = Persist(err, problems, doc)
        /\ nextOid' = IF err = NoError THEN nextOid + 1 ELSE nextOid
        /\ last' = Outcome("addProblem", problem.problemId,
                           problem.authorUsername, err, RetVoid)
        /\ UNCHANGED <<calls, users, testCases, contests, collections, submissions,
                       announcements, authenticationDetails>>

\* updateProblem removes the id and the author from the patch.
ProblemPatch(problem) == Without(problem, {"problemId", "authorUsername"})

UpdateProblem(problem) ==
    LET old == FindOne(problems, "problemId", problem.problemId)
    IN  /\ Idle
        /\ problems' =
              IF IsNull(old) THEN problems
              ELSE Replace(problems, old,
                           ApplyPatch(old, ProblemPatch(problem)))
        /\ last' = Outcome("updateProblem", problem.problemId,
                           problem.authorUsername, NoError,
                           IF IsNull(old) THEN RetNull
                           ELSE RetEntity([problemId |-> old.problemId,
                                           displayName |-> old.displayName,
                                           timeLimit |-> old.timeLimit]))
        /\ UNCHANGED <<calls, users, testCases, contests, collections, submissions,
                       announcements, authenticationDetails, nextOid>>

AddProblemTestCase(problemId, testCaseId) ==
    LET problemDocument == FindOne(problems, "problemId", problemId)
        testCaseDocument == FindOne(testCases, "testCaseId", testCaseId)
        err == CheckOwnerThenReference(problemDocument, testCaseDocument,
                   "NoSuchProblemError", "NoSuchTestCaseError")
    IN  /\ Idle
        /\ problems' = UpdateOwner(err, problems, problemDocument,
              [problemDocument EXCEPT
                  !.testCases = AddToSet(@, testCaseDocument._id)])
        /\ last' = Outcome("addProblemTestCase", problemId, testCaseId, err,
                           RetVoid)
        /\ UNCHANGED <<calls, users, testCases, contests, collections, submissions,
                       announcements, authenticationDetails, nextOid>>

RemoveProblemTestCase(problemId, testCaseId) ==
    LET problemDocument == FindOne(problems, "problemId", problemId)
        testCaseDocument == FindOne(testCases, "testCaseId", testCaseId)
        err == CheckOwnerThenReference(problemDocument, testCaseDocument,
                   "NoSuchProblemError", "NoSuchTestCaseError")
    IN  /\ Idle
        /\ problems' = UpdateOwner(err, problems, problemDocument,
              [problemDocument EXCEPT
                  !.testCases = Pull(@, testCaseDocument._id)])
        /\ last' = Outcome("removeProblemTestCase", problemId, testCaseId,
                           err, RetVoid)
        /\ UNCHANGED <<calls, users, testCases, contests, collections, submissions,
                       announcements, authenticationDetails, nextOid>>

DeleteProblem(problemId) ==
    /\ Idle
    /\ problems' = DeleteOne(problems, "problemId", problemId)
    /\ last' = Outcome("deleteProblem", problemId, "", NoError,
                  RetCount(DeletedCount(problems, "problemId", problemId)))
    /\ UNCHANGED <<calls, users, testCases, contests, collections, submissions,
                   announcements, authenticationDetails, nextOid>>

NewProblems == [problemId : ProblemIds, authorUsername : Usernames,
                displayName : {NameA}, timeLimit : {1000}]
ProblemUpdates == [problemId : ProblemIds, authorUsername : PatchUsernames,
                   displayName : {NameB}, timeLimit : {2000}]

----------------------------------------------------------------------------
\* AnnouncementDao

AnnouncementEntity(doc) ==
    [announcementId |-> doc.announcementId, subject |-> doc.subject]

AnnouncementValid(doc) ==
    IsUnique(announcements, "announcementId", doc.announcementId)

GetAnnouncementResult(announcementId) ==
    LET document == FindOne(announcements, "announcementId", announcementId)
    IN  IF IsNull(document) THEN RetNull
        ELSE RetEntity(AnnouncementEntity(document))

GetAnnouncement(announcementId) ==
    /\ Idle
    /\ last' = Outcome("getAnnouncement", announcementId, "", NoError,
                       GetAnnouncementResult(announcementId))
    /\ UNCHANGED <<calls, db, nextOid>>

AddAnnouncement(contestId, announcement) ==
    LET contestDocument == FindOne(contests, "contestId", contestId)
        doc == [_id |-> nextOid,
                announcementId |-> announcement.announcementId,
                ofContestId |-> contestDocument._id,
                subject |-> trimStringSetter(announcement.subject)]
        err == FirstError(<<
                 Check(~IsNull(contestDocument), "ContestNotFoundError"),
                 Check(AnnouncementValid(doc), "ValidationError")>>)
    IN  /\ Idle
        /\ err = NoError => nextOid <= MaxOid
        /\ announcements' = Persist(err, announcements, doc)
        /\ nextOid' = IF err = NoError THEN nextOid + 1 ELSE nextOid
        /\ last' = Outcome("addAnnouncement", announcement.announcementId,
                           contestId, err,
                           IF err = NoError
                           THEN RetEntity(AnnouncementEntity(doc))
                           ELSE RetVoid)
        /\ UNCHANGED <<calls, users, problems, testCases, contests, collections,
                       submissions, authenticationDetails>>

\* updateAnnouncement removes the id from the patch.
AnnouncementPatch(announcement) == Without(announcement, {"announcementId"})

UpdateAnnouncement(announcement) ==
    LET old == FindOne(announcements, "announcementId",
                       announcement.announcementId)
    IN  /\ Idle
        /\ announcements' =
              IF IsNull(old) THEN announcements
              ELSE Replace(announcements, old,
                           ApplyPatch(old, AnnouncementPatch(announcement)))
        /\ last' = Outcome("updateAnnouncement", announcement.announcementId,
                           "", NoError,
                           IF IsNull(old) THEN RetNull
                           ELSE RetEntity(AnnouncementEntity(old)))
        /\ UNCHANGED <<calls, users, problems, testCases, contests, collections,
                       submissions, authenticationDetails, nextOid>>

DeleteAnnouncement(announcementId) ==
    /\ Idle
    /\ announcements' =
           DeleteOne(announcements, "announcementId", announcementId)
    /\ last' = Outcome("deleteAnnouncement", announcementId, "", NoError,
           RetCount(DeletedCount(announcements, "announcementId",
                                 announcementId)))
    /\ UNCHANGED <<calls, users, problems, testCases, contests, collections,
                   submissions, authenticationDetails, nextOid>>

NewAnnouncements == [announcementId : AnnouncementIds, subject : {NameA}]
AnnouncementUpdates == [announcementId : AnnouncementIds, subject : {NameB}]

----------------------------------------------------------------------------
\* ContestDao

\* Problem.fromObject of a problem populated inside another document: its
\* author is populated, its testCases path still holds the stored ids.
NestedProblemEntity(doc) ==
    [problemId |-> doc.problemId,
     author |-> UserEntity(Populate(users, doc.author)),
     displayName |-> doc.displayName,
     timeLimit |-> doc.timeLimit,
     testCases |-> [i \in 1..Len(doc.testCases) |->
                       [testCaseId |-> "undefined"]]]

GetContestOptions ==
    [includeProblems |-> FALSE, includeParticipants |-> FALSE,
     includeAnnouncements |-> FALSE]

SetToSeq(S) ==
    LET RECURSIVE build(_)
        build(T) == IF T = {} THEN <<>>
                    ELSE LET x == CHOOSE y \in T : \A z \in T : y._id <= z._id
                         IN  <<x>> \o build(T \ {x})
    IN  build(S)

documentToContest(document, getOptions) ==
    LET contest ==
          [contestId |-> document.contestId,
           organizer |-> UserEntity(Populate(users, document.organizer)),
           displayName |-> document.displayName,
           duration |-> document.duration,
           problems |-> MapSeq(NestedProblemEntity,
                               PopulateMany(problems, document.problems)),
           participants |-> MapSeq(UserEntity,
                               PopulateMany(users, document.participants)),
           announcements |-> MapSeq(AnnouncementEntity,
                               SetToSeq(Matching(announcements, "ofContestId",
                                                 document._id)))]
    IN  Without(contest,
            (IF getOptions.includeProblems THEN {} ELSE {"problems"})
            \cup (IF getOptions.includeParticipants THEN {}
                  ELSE {"participants"})
            \cup (IF getOptions.includeAnnouncements THEN {}
                  ELSE {"announcements"}))

getAllContestFormats == {"IOI", "ICPC"}

ContestValid(doc) ==
    /\ Len(doc.displayName) >= 1
    /\ doc.format \in getAllContestFormats
    /\ doc.duration >= MinDuration
    /\ IsUnique(contests, "contestId", doc.contestId)

GetContestResult(contestId, getOptions) ==
    LET document == FindOne(contests, "contestId", contestId)
    IN  IF IsNull(document) THEN RetNull
        ELSE RetEntity(documentToContest(document, getOptions))

GetContest(contestId, getOptions) ==
    /\ Idle
    /\ last' = Outcome("getContest", contestId, "", NoError,
                       GetContestResult(contestId, getOptions))
    /\ UNCHANGED <<calls, db, nextOid>>

AddContest(contest) ==
    LET username == contest.organizerUsername
        userDocument == FindOne(users, "username", username)
        doc == [_id |-> nextOid, contestId |-> contest.contestId,
                organizer |-> userDocument._id,
                organizerUsername |-> username,
                displayName |-> trimStringSetter(contest.displayName),
                format |-> contest.format,
                startTime |-> contest.startTime,
                duration |-> contest.duration,
                problems |-> <<>>, participants |-> <<>>]
        err == FirstError(<<
                 Check(~IsNull(userDocument), "UserNotFoundError"),
                 Check(ContestValid(doc), "ValidationError")>>)
    IN  /\ Idle
        /\ err = NoError => nextOid <= MaxOid
        /\ contests' = Persist(err, contests, doc)
        /\ nextOid' = IF err = NoError THEN nextOid + 1 ELSE nextOid
        /\ last' = Outcome("addContest", contest.contestId, username, err,
                       IF err = NoError
                       THEN RetEntity(documentToContest(doc,
                                                        GetContestOptions))
                       ELSE RetVoid)
        /\ UNCHANGED <<calls, users, problems, testCases, collections, submissions,
                       announcements, authenticationDetails>>

\* A slip: only the id is removed, the organizer stays in the patch.
ContestPatchKeepingOrganizer(contest) == Without(contest, {"contestId"})

\* updateContest removes the id and the organizer from the patch.
ContestPatch(contest) == Without(contest, {"contestId", "organizerUsername"})

UpdateContest(contest) ==
    LET updatedDocument == FindOne(contests, "contestId", contest.contestId)
    IN  /\ Idle
        /\ contests' =
              IF IsNull(updatedDocument) THEN contests
              ELSE Replace(contests, updatedDocument,
                       ApplyPatch(updatedDocument, ContestPatch(contest)))
        /\ last' = Outcome("updateContest", contest.contestId,
                       contest.organizerUsername, NoError,
                       IF IsNull(updatedDocument) THEN RetNull
                       ELSE RetEntity(documentToContest(updatedDocument,
                                                        GetContestOptions)))
        /\ UNCHANGED <<calls, users, problems, testCases, collections, submissions,
                       announcements, authenticationDetails, nextOid>>

AddContestProblem(contestId, problemId) ==
    LET contestDocument == FindOne(contests, "contestId", contestId)
        problemDocument == FindOne(problems, "problemId", problemId)
        err == CheckOwnerThenReference(contestDocument, problemDocument,
                   "ContestNotFoundError", "ProblemNotFoundError")
    IN  /\ Idle
        /\ contests' = UpdateOwner(err, contests, contestDocument,
              [contestDocument EXCEPT
                  !.problems = AddToSet(@, problemDocument._id)])
        /\ last' = Outcome("addContestProblem", contestId, problemId, err,
                           RetVoid)
        /\ UNCHANGED <<calls, users, problems, testCases, collections, submissions,
                       announcements, authenticationDetails, nextOid>>

RemoveContestProblem(contestId, problemId) ==
    LET contestDocument == FindOne(contests, "contestId", contestId)
        problemDocument == FindOne(problems, "problemId", problemId)
        err == CheckOwnerThenReference(contestDocument, problemDocument,
                   "ContestNotFoundError", "ProblemNotFoundError")
    IN  /\ Idle
        /\ contests' = UpdateOwner(err, contests, contestDocument,
              [contestDocument EXCEPT
                  !.problems = Pull(@, problemDocument._id)])
        /\ last' = Outcome("removeContestProblem", contestId, problemId, err,
                           RetVoid)
        /\ UNCHANGED <<calls, users, problems, testCases, collections, submissions,
                       announcements, authenticationDetails, nextOid>>

AddContestParticipant(contestId, username) ==
    LET contestDocument == FindOne(contests, "contestId", contestId)
        problemDocument == FindOne(users, "username", username)
        err == CheckOwnerThenReference(contestDocument, problemDocument,
                   "ContestNotFoundError", "UserNotFoundError")
    IN  /\ Idle
        /\ contests' = UpdateOwner(err, contests, contestDocument,
              [contestDocument EXCEPT
                  !.participants = AddToSet(@, problemDocument._id)])
        /\ last' = Outcome("addContestParticipant", contestId, username, err,
                           RetVoid)
        /\ UNCHANGED <<calls, users, problems, testCases, collections, submissions,
                       announcements, authenticationDetails, nextOid>>

RemoveContestParticipant(contestId, username) ==
    LET contestDocument == FindOne(contests, "contestId", contestId)
        userDocument == FindOne(users, "username", username)
        err == CheckOwnerThenReference(contestDocument, userDocument,
                   "ContestNotFoundError", "UserNotFoundError")
    IN  /\ Idle
        /\ contests' = UpdateOwner(err, contests, contestDocument,
              [contestDocument EXCEPT
                  !.participants = Pull(@, userDocument._id)])
        /\ last' = Outcome("removeContestParticipant", contestId, username,
                           err, RetVoid)
        /\ UNCHANGED <<calls, users, problems, testCases, collections, submissions,
                       announcements, authenticationDetails, nextOid>>

DeleteContest(contestId) ==
    /\ Idle
    /\ contests' = DeleteOne(contests, "contestId", contestId)
    /\ last' = Outcome("deleteContest", contestId, "", NoError,
                  RetCount(DeletedCount(contests, "contestId", contestId)))
    /\ UNCHANGED <<calls, users, problems, testCases, collections, submissions,
                   announcements, authenticationDetails, nextOid>>

NewContests == [contestId : ContestIds, organizerUsername : Usernames,
                displayName : {NameA}, format : {"IOI"}, startTime : {1},
                duration : {300000}, isPublic : {TRUE}]
ContestUpdates == [contestId : ContestIds, organizerUsername : PatchUsernames,
                   displayName : {NameB}, duration : {600000}]
ContestGetOptions ==
    {GetContestOptions,
     [includeProblems |-> TRUE, includeParticipants |-> FALSE,
      includeAnnouncements |-> FALSE],
     [includeProblems |-> TRUE, includeParticipants |-> TRUE,
      includeAnnouncements |-> TRUE]}

----------------------------------------------------------------------------
\* CollectionDao

documentToCollection(document, includeProblems) ==
    LET collection ==
          [collectionId |-> document.collectionId,
           owner |-> UserEntity(Populate(users, document.owner)),
           displayName |-> document.displayName,
           isPublic |-> document.isPublic,
           problems |-> MapSeq(NestedProblemEntity,
                               PopulateMany(problems, document.problems))]
    IN  IF includeProblems THEN collection
        ELSE Without(collection, {"problems"})

CollectionValid(doc) ==
    /\ Len(doc.displayName) >= 1
    /\ IsUnique(collections, "collectionId", doc.collectionId)

GetCollectionResult(collectionId, includeProblems) ==
    LET document == FindOne(collections, "collectionId", collectionId)
    IN  IF IsNull(document) THEN RetNull
        ELSE RetEntity(documentToCollection(document, includeProblems))

GetCollection(collectionId, includeProblems) ==
    /\ Idle
    /\ last' = Outcome("getCollection", collectionId, "", NoError,
                       GetCollectionResult(collectionId, includeProblems))
    /\ UNCHANGED <<calls, db, nextOid>>

AddCollection(collection) ==
    LET username == collection.ownerUsername
        userDocument == FindOne(users, "username", username)
        doc == [_id |-> nextOid, collectionId |-> collection.collectionId,
                owner |-> userDocument._id,
                ownerUsername |-> username,
                displayName |-> trimStringSetter(collection.displayName),
                isPublic |-> collection.isPublic,
                problems |-> <<>>]
        err == FirstError(<<
                 Check(~IsNull(userDocument), "UserNotFoundError"),
                 Check(CollectionValid(doc), "ValidationError")>>)
    IN  /\ Idle
        /\ err = NoError => nextOid <= MaxOid
        /\ collections' = Persist(err, collections, doc)
        /\ nextOid' = IF err = NoError THEN nextOid + 1 ELSE nextOid
        /\ last' = Outcome("addCollection", collection.collectionId, username,
                       err,
                       IF err = NoError
                       THEN RetEntity(documentToCollection(doc, FALSE))
                       ELSE RetVoid)
        /\ UNCHANGED <<calls, users, problems, testCases, contests, submissions,
                       announcements, authenticationDetails>>

\* updateCollection removes the id and the owner from the patch.
CollectionPatch(collection) ==
    Without(collection, {"collectionId", "ownerUsername"})

UpdateCollection(collection) ==
    LET updatedDocument ==
            FindOne(collections, "collectionId", collection.collectionId)
    IN  /\ Idle
        /\ collections' =
              IF IsNull(updatedDocument) THEN collections
              ELSE Replace(collections, updatedDocument,
                     ApplyPatch(updatedDocument, CollectionPatch(collection)))
        /\ last' = Outcome("updateCollection", collection.collectionId,
                       collection.ownerUsername, NoError,
                       IF IsNull(updatedDocument) THEN RetNull
                       ELSE RetEntity(documentToCollection(updatedDocument,
                                                           FALSE)))
        /\ UNCHANGED <<calls, users, problems, testCases, contests, submissions,
                       announcements, authenticationDetails, nextOid>>

AddCollectionProblem(collectionId, problemId) ==
    LET collectionDocument == FindOne(collections, "collectionId",
                                      collectionId)
        problemDocument == FindOne(problems, "problemId", problemId)
        err == CheckOwnerThenReference(collectionDocument, problemDocument,
                   "CollectionNotFoundError", "ProblemNotFoundError")
    IN  /\ Idle
        /\ collections' = UpdateOwner(err, collections, collectionDocument,
              [collectionDocument EXCEPT
                  !.problems = AddToSet(@, problemDocument._id)])
        /\ last' = Outcome("addCollectionProblem", collectionId, problemId,
                           err, RetVoid)
        /\ UNCHANGED <<calls, users, problems, testCases, contests, submissions,
                       announcements, authenticationDetails, nextOid>>

RemoveCollectionProblem(collectionId, problemId) ==
    LET collectionDocument == FindOne(collections, "collectionId",
                                      collectionId)
        problemDocument == FindOne(problems, "problemId", problemId)
        err == CheckOwnerThenReference(collectionDocument, problemDocument,
                   "CollectionNotFoundError", "ProblemNotFoundError")
    IN  /\ Idle
        /\ collections' = UpdateOwner(err, collections, collectionDocument,
              [collectionDocument EXCEPT
                  !.problems = Pull(@, problemDocument._id)])
        /\ last' = Outcome("removeCollectionProblem", collectionId, problemId,
                           err, RetVoid)
        /\ UNCHANGED <<calls, users, problems, testCases, contests, submissions,
                       announcements, authenticationDetails, nextOid>>

DeleteCollection(collectionId) ==
    /\ Idle
    /\ collections' = DeleteOne(collections, "collectionId", collectionId)
    /\ last' = Outcome("deleteCollection", collectionId, "", NoError,
          RetCount(DeletedCount(collections, "collectionId", collectionId)))
    /\ UNCHANGED <<calls, users, problems, testCases, contests, submissions,
                   announcements, authenticationDetails, nextOid>>

NewCollections == [collectionId : CollectionIds, ownerUsername : Usernames,
                   displayName : {NameA}, isPublic : {TRUE}]
CollectionUpdates == [collectionId : CollectionIds, ownerUsername : PatchUsernames,
                      displayName : {NameB}, isPublic : {FALSE}]

----------------------------------------------------------------------------
\* SubmissionDao

getAllSubmissionStatuses ==
    {"Submitted", "InQueue", "Compiling", "CE", "Judging", "TLE", "MLE",
     "RuntimeError", "WA", "Accepted"}

\* A falsy id (null, undefined or "") names nothing.
Falsy == ""

\* documentToSubmission: author, problem and contest are populated, then
\* `delete submission.problem.testCases` dereferences the problem.
SubmissionThrows(document) == IsNull(Populate(problems, document.problem))

documentToSubmission(document) ==
    [submissionId |-> document.submissionId,
     author |-> UserEntity(Populate(users, document.author)),
     problemId |-> Populate(problems, document.problem).problemId,
     hasContest |-> ~IsNull(Populate(contests, document.contest)),
     status |-> document.status,
     failedTestCase |-> document.failedTestCase]

SubmissionValid(doc) ==
    /\ doc.status \in getAllSubmissionStatuses
    /\ IsUnique(submissions, "submissionId", doc.submissionId)

GetSubmissionResult(submissionId) ==
    LET document == FindOne(submissions, "submissionId", submissionId)
    IN  IF IsNull(document) THEN [err |-> NoError, ret |-> RetNull]
        ELSE IF SubmissionThrows(document)
        THEN [err |-> "TypeError", ret |-> RetVoid]
        ELSE [err |-> NoError,
              ret |-> RetEntity(documentToSubmission(document))]

GetSubmission(submissionId) ==
    /\ Idle
    /\ last' = Outcome("getSubmission", submissionId, "",
                       GetSubmissionResult(submissionId).err,
                       GetSubmissionResult(submissionId).ret)
    /\ UNCHANGED <<calls, db, nextOid>>

AddSubmission(submission) ==
    LET failedTestCaseId == submission.failedTestCaseId
        contestId == submission.contestId
        userDocument == FindOne(users, "username", submission.authorUsername)
        problemDocument == FindOne(problems, "problemId",
                                   submission.problemId)
        testCaseDocument ==
            IF failedTestCaseId # Falsy
            THEN FindOne(testCases, "testCaseId", failedTestCaseId)
            ELSE NullDoc
        contestDocument ==
            IF contestId # Falsy
            THEN FindOne(contests, "contestId", contestId) ELSE NullDoc
        doc == [_id |-> nextOid, submissionId |-> submission.submissionId,
                author |-> userDocument._id,
                problem |-> problemDocument._id,
                contest |-> contestDocument._id,
                submissionTime |-> submission.submissionTime,
                status |-> submission.status,
                failedTestCase |-> NoRef]
        err == FirstError(<<
                 Check(~IsNull(userDocument), "UserNotFoundError"),
                 Check(~IsNull(problemDocument), "ProblemNotFoundError"),
                 Check(failedTestCaseId = Falsy \/ ~IsNull(testCaseDocument),
                       "TestCaseNotFoundError"),
                 Check(contestId = Falsy \/ ~IsNull(contestDocument),
                       "ContestNotFoundError"),
                 Check(SubmissionValid(doc), "ValidationError")>>)
    IN  /\ Idle
        /\ err = NoError => nextOid <= MaxOid
        /\ submissions' = Persist(err, submissions, doc)
        /\ nextOid' = IF err = NoError THEN nextOid + 1 ELSE nextOid
        /\ last' = Outcome("addSubmission", submission.submissionId,
                       submission.failedTestCaseId, err,
                       IF err = NoError
                       THEN RetEntity(documentToSubmission(doc))
                       ELSE RetVoid)
        /\ UNCHANGED <<calls, users, problems, testCases, contests, collections,
                       announcements, authenticationDetails>>

\* A slip: the status is removed from the patch with the references.
SubmissionPatchWithoutStatus(submission) ==
    Without(submission, {"authorUsername", "problemId", "contestId", "status"})

\* updateSubmission removes the author, the problem and the contest from
\* the patch.
SubmissionPatch(submission) ==
    Without(submission, {"authorUsername", "problemId", "contestId"})

\* The check updateSubmission makes when result.failedTestCaseId is set:
\* it throws when the test case was found, and reads `_id` of null when it
\* was not.
FailedTestCaseCheck(failedTestCaseId) ==
    IF failedTestCaseId = Falsy THEN NoError
    ELSE IF ~IsNull(FindOne(testCases, "testCaseId", failedTestCaseId))
    THEN "TestCaseNotFoundError"
    ELSE "TypeError"

UpdateSubmission(submission) ==
    LET checkErr == FailedTestCaseCheck(submission.failedTestCaseId)
        updatedDocument == FindOne(submissions, "submissionId",
                                   submission.submissionId)
        written == checkErr = NoError /\ ~IsNull(updatedDocument)
        err == IF checkErr # NoError THEN checkErr
               ELSE IF IsNull(updatedDocument) THEN NoError
               ELSE IF SubmissionThrows(updatedDocument) THEN "TypeError"
               ELSE NoError
    IN  /\ Idle
        /\ submissions' =
              IF written
              THEN Replace(submissions, updatedDocument,
                     ApplyPatch(updatedDocument, SubmissionPatch(submission)))
              ELSE submissions
        /\ last' = Outcome("updateSubmission", submission.submissionId,
                       submission.failedTestCaseId, err,
                       IF err # NoError THEN RetVoid
                       ELSE IF IsNull(updatedDocument) THEN RetNull
                       ELSE RetEntity(documentToSubmission(updatedDocument)))
        /\ UNCHANGED <<calls, users, problems, testCases, contests, collections,
                       announcements, authenticationDetails, nextOid>>

DeleteSubmission(submissionId) ==
    /\ Idle
    /\ submissions' = DeleteOne(submissions, "submissionId", submissionId)
    /\ last' = Outcome("deleteSubmission", submissionId, "", NoError,
          RetCount(DeletedCount(submissions, "submissionId", submissionId)))
    /\ UNCHANGED <<calls, users, problems, testCases, contests, collections,
                   announcements, authenticationDetails, nextOid>>

NewSubmissions ==
    [submissionId : SubmissionIds, authorUsername : Usernames,
     problemId : ProblemIds, contestId : ContestIds \cup {Falsy},
     submissionTime : {1},
     status : {"Submitted"}, failedTestCaseId : TestCaseIds \cup {Falsy}]
SubmissionUpdates ==
    [submissionId : SubmissionIds, authorUsername : PatchUsernames,
     problemId : ProblemIds, contestId : {Falsy},
     status : {"Accepted"}, failedTestCaseId : TestCaseIds \cup {Falsy}]

----------------------------------------------------------------------------
\* AuthenticationDetailDao

\* hashPasswordMiddleware on save: a Password value is stored hashed.
hashPassword(value) == <<"bcrypt", value>>

\* A slip: the details are matched by their method alone.
DetailsOfMethod(userDocument, method) ==
    {d \in authenticationDetails : d.method = method}

DetailsOf(userDocument, method) ==
    {d \in authenticationDetails :
        d.ofUserId = userDocument._id /\ d.method = method}

\* A slip: the detail is looked up by its method alone.
FirstDetailOfAnyUser(userDocument, method) ==
    FindOne(authenticationDetails, "method", method)

FirstDetail(userDocument, method) ==
    LET m == DetailsOf(userDocument, method)
    IN  IF m = {} THEN NullDoc
        ELSE CHOOSE d \in m : \A e \in m : d._id <= e._id

GetAuthenticationDetailResult(username, method) ==
    LET userDocument == FindOne(users, "username", username)
        methodDetail == FirstDetail(userDocument, method)
    IN  IF IsNull(userDocument) \/ IsNull(methodDetail) THEN RetNull
        ELSE RetEntity([method |-> method, value |-> methodDetail.value])

GetAuthenticationDetail(username, method) ==
    /\ Idle
    /\ last' = Outcome("getAuthenticationDetail", username, method, NoError,
                       GetAuthenticationDetailResult(username, method))
    /\ UNCHANGED <<calls, db, nextOid>>

AddAuthenticationDetail(username, detail) ==
    LET userDocument == FindOne(users, "username", username)
        doc == [_id |-> nextOid, ofUserId |-> userDocument._id,
                method |-> detail.method,
                value |-> hashPassword(detail.value)]
        err == FirstError(<<
                 Check(~IsNull(userDocument), "UserNotFoundError"),
                 Check(detail.method \in Methods, "ValidationError")>>)
    IN  /\ Idle
        /\ err = NoError => nextOid <= MaxOid
        /\ authenticationDetails' = Persist(err, authenticationDetails, doc)
        /\ nextOid' = IF err = NoError THEN nextOid + 1 ELSE nextOid
        /\ last' = Outcome("addAuthenticationDetail", username, detail.method,
                           err, RetVoid)
        /\ UNCHANGED <<calls, users, problems, testCases, contests, collections,
                       submissions, announcements>>

UpdateAuthenticationDetail(username, detail) ==
    LET userDocument == FindOne(users, "username", username)
        detailDocument == FirstDetail(userDocument, detail.method)
        err == CheckOwnerThenReference(userDocument, detailDocument,
                   "UserNotFoundError", "AuthenticationDetailNotFoundError")
    IN  /\ Idle
        /\ authenticationDetails' =
              IF err = NoError
              THEN Replace(authenticationDetails, detailDocument,
                     [detailDocument EXCEPT
                         !.value = hashPassword(detail.value)])
              ELSE authenticationDetails
        /\ last' = Outcome("updateAuthenticationDetail", username,
                           detail.method, err, RetVoid)
        /\ UNCHANGED <<calls, users, problems, testCases, contests, collections,
                       submissions, announcements, nextOid>>

DeleteAuthenticationDetail(username, method) ==
    LET userDocument == FindOne(users, "username", username)
        matched == DetailsOf(userDocument, method)
        err == IF IsNull(userDocument) THEN "UserNotFoundError"
               ELSE IF Cardinality(matched) = 0
               THEN "AuthenticationDetailNotFoundError" ELSE NoError
    IN  /\ Idle
        /\ authenticationDetails' =
              IF IsNull(userDocument) THEN authenticationDetails
              ELSE authenticationDetails \ matched
        /\ last' = Outcome("deleteAuthenticationDetail", username, method,
                           err, RetVoid)
        /\ UNCHANGED <<calls, users, problems, testCases, contests, collections,
                       submissions, announcements, nextOid>>

NewDetails == [method : Methods, value : {"pw1"}]
DetailUpdates == [method : Methods, value : {"pw2"}]

----------------------------------------------------------------------------
\* addContestProblem step by step.  The queries of the transaction body are
\* not given the session, so each of them is a store operation of its own
\* and other callers' operations run between its awaits.

\* await mongoose.startSession()
StartSession(i, contestId, problemId) ==
    /\ calls[i].pc = "idle"
    /\ calls' = [calls EXCEPT ![i] =
                    [NotCalled EXCEPT !.pc = "findContest",
                                      !.session = "open",
                                      !.contestId = contestId,
                                      !.problemId = problemId]]
    /\ UNCHANGED <<db, nextOid, last>>

\* await ContestModel.findOne({contestId}).exec(), and the null check
FindContest(i) ==
    LET contestDocument == FindOne(contests, "contestId", calls[i].contestId)
    IN  /\ calls[i].pc = "findContest"
        /\ calls' = [calls EXCEPT ![i] =
              IF IsNull(contestDocument)
              THEN [@ EXCEPT !.pc = "done", !.err = "ContestNotFoundError"]
              ELSE [@ EXCEPT !.pc = "findProblem",
                             !.contestDocument = contestDocument]]
        /\ UNCHANGED <<db, nextOid, last>>

\* await ProblemModel.findOne({problemId}).exec(), and the null check
FindProblem(i) ==
    LET problemDocument == FindOne(problems, "problemId", calls[i].problemId)
    IN  /\ calls[i].pc = "findProblem"
        /\ calls' = [calls EXCEPT ![i] =
              IF IsNull(problemDocument)
              THEN [@ EXCEPT !.pc = "done", !.err = "ProblemNotFoundError"]
              ELSE [@ EXCEPT !.pc = "update",
                             !.problemDocument = problemDocument]]
        /\ UNCHANGED <<db, nextOid, last>>

\* A slip: the reference is added to the document as it was found, and that
\* document is saved over the stored one.
SaveContestDocument(i) ==
    LET stored == Populate(contests, calls[i].contestDocument._id)
    IN  /\ calls[i].pc = "update"
        /\ contests' =
              IF IsNull(stored) THEN contests
              ELSE Replace(contests, stored,
                     [calls[i].contestDocument EXCEPT !.problems =
                         AddToSet(@, calls[i].problemDocument._id)])
        /\ calls' = [calls EXCEPT ![i].pc = "done", ![i].session = "ended"]
        /\ UNCHANGED <<users, problems, testCases, collections, submissions,
                       announcements, authenticationDetails, nextOid, last>>

\* await contestDocument.update({$addToSet: {problems: problemDocument._id}}):
\* an updateOne of the stored document with that _id, if there still is one.
\* The transaction body returns, withTransaction resolves and the statement
\* after it, session.endSession(), runs.  A throw of the body rejects
\* withTransaction and leaves the method before that statement.
UpdateContestDocument(i) ==
    LET stored == Populate(contests, calls[i].contestDocument._id)
    IN  /\ calls[i].pc = "update"
        /\ contests' =
              IF IsNull(stored) THEN contests
              ELSE Replace(contests, stored,
                     [stored EXCEPT !.problems =
                         AddToSet(@, calls[i].problemDocument._id)])
        /\ calls' = [calls EXCEPT ![i].pc = "done", ![i].session = "ended"]
        /\ UNCHANGED <<users, problems, testCases, collections, submissions,
                       announcements, authenticationDetails, nextOid, last>>

\* The promise settles and the caller may call again.
Settle(i) ==
    /\ calls[i].pc = "done"
    /\ calls' = [calls EXCEPT ![i] = NotCalled]
    /\ UNCHANGED <<db, nextOid, last>>

----------------------------------------------------------------------------
\* Every DAO method, each called and awaited before the next one starts.

Next ==
    \/ Return
    \/ \E u \in Usernames : GetUser(u)
    \/ \E u \in Users : AddUser(u)
    \/ \E u \in UserUpdates : UpdateUser(u)
    \/ \E u \in Usernames : DeleteUser(u)
    \/ \E t \in TestCaseIds : GetTestCase(t)
    \/ \E t \in NewTestCases : AddTestCase(t)
    \/ \E t \in TestCaseUpdates : UpdateTestCase(t)
    \/ \E t \in TestCaseIds : DeleteTestCase(t)
    \/ \E p \in ProblemIds, i \in BOOLEAN : GetProblem(p, i)
    \/ \E p \in NewProblems : AddProblem(p)
    \/ \E p \in ProblemUpdates : UpdateProblem(p)
    \/ \E p \in ProblemIds, t \in TestCaseIds : AddProblemTestCase(p, t)
    \/ \E p \in ProblemIds, t \in TestCaseIds : RemoveProblemTestCase(p, t)
    \/ \E p \in ProblemIds : DeleteProblem(p)
    \/ \E a \in AnnouncementIds : GetAnnouncement(a)
    \/ \E c \in ContestIds, a \in NewAnnouncements : AddAnnouncement(c, a)
    \/ \E a \in AnnouncementUpdates : UpdateAnnouncement(a)
    \/ \E a \in AnnouncementIds : DeleteAnnouncement(a)
    \/ \E c \in ContestIds, o \in ContestGetOptions : GetContest(c, o)
    \/ \E c \in NewContests : AddContest(c)
    \/ \E c \in ContestUpdates : UpdateContest(c)
    \/ \E c \in ContestIds, p \in ProblemIds : AddContestProblem(c, p)
    \/ \E c \in ContestIds, p \in ProblemIds : RemoveContestProblem(c, p)
    \/ \E c \in ContestIds, u \in Usernames : AddContestParticipant(c, u)
    \/ \E c \in ContestIds, u \in Usernames : RemoveContestParticipant(c, u)
    \/ \E c \in ContestIds : DeleteContest(c)
    \/ \E c \in CollectionIds, i \in BOOLEAN : GetCollection(c, i)
    \/ \E c \in NewCollections : AddCollection(c)
    \/ \E c \in CollectionUpdates : UpdateCollection(c)
    \/ \E c \in CollectionIds, p \in ProblemIds : AddCollectionProblem(c, p)
    \/ \E c \in CollectionIds, p \in ProblemIds :
           RemoveCollectionProblem(c, p)
    \/ \E c \in CollectionIds : DeleteCollection(c)
    \/ \E s \in SubmissionIds : GetSubmission(s)
    \/ \E s \in NewSubmissions : AddSubmission(s)
    \/ \E s \in SubmissionUpdates : UpdateSubmission(s)
    \/ \E s \in SubmissionIds : DeleteSubmission(s)
    \/ \E u \in Usernames, m \in Methods : GetAuthenticationDetail(u, m)
    \/ \E u \in Usernames, d \in NewDetails : AddAuthenticationDetail(u, d)
    \/ \E u \in Usernames, d \in DetailUpdates :
           UpdateAuthenticationDetail(u, d)
    \/ \E u \in Usernames, m \in Methods : DeleteAuthenticationDetail(u, m)

Spec == Init /\ [][Next]_vars

\* Callers of addContestProblem running beside a caller that creates and
\* deletes users, problems and contests.
NextConc ==
    \/ Return
    \/ \E u \in Users : AddUser(u)
    \/ \E p \in NewProblems : AddProblem(p)
    \/ \E c \in NewContests : AddContest(c)
    \/ \E p \in ProblemIds : DeleteProblem(p)
    \/ \E c \in ContestIds : DeleteContest(c)
    \/ \E i \in Callers, c \in ContestIds, p \in ProblemIds :
           StartSession(i, c, p)
    \/ \E i \in Callers : FindContest(i)
    \/ \E i \in Callers : FindProblem(i)
    \/ \E i \in Callers : UpdateContestDocument(i)
    \/ \E i \in Callers : Settle(i)

SpecConc == Init /\ [][NextConc]_vars

----------------------------------------------------------------------------
\* Properties of the relation mutations.

ContestRelationOps ==
    {"addContestProblem", "removeContestProblem",
     "addContestParticipant", "removeContestParticipant"}
CollectionRelationOps == {"addCollectionProblem", "removeCollectionProblem"}
ProblemRelationOps == {"addProblemTestCase", "removeProblemTestCase"}
RelationOps ==
    ContestRelationOps \cup CollectionRelationOps \cup ProblemRelationOps
RelationAdds ==
    {"addProblemTestCase", "addContestProblem", "addContestParticipant",
     "addCollectionProblem"}

\* The stored owner and the stored referenced document a relation mutation
\* names, or null.
OwnerOf(call) ==
    IF call.op \in ContestRelationOps
    THEN FindOne(contests, "contestId", call.a)
    ELSE IF call.op \in CollectionRelationOps
    THEN FindOne(collections, "collectionId", call.a)
    ELSE FindOne(problems, "problemId", call.a)

ReferenceOf(call) ==
    IF call.op \in {"addContestParticipant", "removeContestParticipant"}
    THEN FindOne(users, "username", call.b)
    ELSE IF call.op \in ProblemRelationOps
    THEN FindOne(testCases, "testCaseId", call.b)
    ELSE FindOne(problems, "problemId", call.b)

OwnerNotFound(op) ==
    IF op \in ContestRelationOps THEN "ContestNotFoundError"
    ELSE IF op \in CollectionRelationOps THEN "CollectionNotFoundError"
    ELSE "NoSuchProblemError"

ReferenceNotFound(op) ==
    IF op \in {"addContestParticipant", "removeContestParticipant"}
    THEN "UserNotFoundError"
    ELSE IF op \in ProblemRelationOps THEN "NoSuchTestCaseError"
    ELSE "ProblemNotFoundError"

\* C1: a relation mutation called when neither the owning document nor the
\* referenced document exists fails with the owner's not-found error, never
\* with the referenced entity's.
C1_OwnerNotFoundTakesPrecedence ==
    [][(/\ last'.op \in RelationOps
        /\ IsNull(OwnerOf(last'))
        /\ IsNull(ReferenceOf(last')))
       => last'.err = OwnerNotFound(last'.op)]_vars

\* addContestParticipant has just failed with ContestNotFoundError while
\* neither the contest nor the user exists.
C1_BothMissing ==
    /\ last.op = "addContestParticipant"
    /\ IsNull(OwnerOf(last))
    /\ IsNull(ReferenceOf(last))
    /\ last.err = "ContestNotFoundError"

\* C2: a relation add that fails because the referenced id does not exist
\* leaves the owner's relation, and every other stored document, as it was.
C2_FailedAddChangesNothing ==
    [][(/\ last'.op \in RelationAdds
        /\ last'.err = ReferenceNotFound(last'.op))
       => db' = db]_vars

\* addContestProblem has just failed with ProblemNotFoundError on a contest
\* that holds another problem.
C2_FailedAddOnNonEmptyRelation ==
    /\ last.op = "addContestProblem"
    /\ last.err = "ProblemNotFoundError"
    /\ ~IsNull(OwnerOf(last))
    /\ Len(OwnerOf(last).problems) >= 1

NoRepeat(seq) == \A i, j \in 1..Len(seq) : seq[i] = seq[j] => i = j

NoDuplicateReference ==
    /\ \A c \in contests : NoRepeat(c.problems) /\ NoRepeat(c.participants)
    /\ \A c \in collections : NoRepeat(c.problems)
    /\ \A p \in problems : NoRepeat(p.testCases)

\* C3: no set-valued relation ever holds the same reference twice, and
\* adding to a contest a problem it already holds changes nothing.
C3_NoDuplicateMembers ==
    /\ []NoDuplicateReference
    /\ [][(/\ last'.op = "addContestProblem"
           /\ last'.err = NoError
           /\ Contains(OwnerOf(last').problems, ReferenceOf(last')._id))
          => db' = db]_vars

\* addContestProblem has just succeeded for a problem that the contest
\* holds before another one: the problem was a member before this call.
C3_AddedTwice ==
    /\ last.op = "addContestProblem"
    /\ last.err = NoError
    /\ ~IsNull(OwnerOf(last))
    /\ ~IsNull(ReferenceOf(last))
    /\ Len(OwnerOf(last).problems) = 2
    /\ OwnerOf(last).problems[1] = ReferenceOf(last)._id

\* The contest holds a stored problem with this problemId.
IsMember(contestDocument, problemId) ==
    \E p \in Matching(problems, "problemId", problemId) :
        Contains(contestDocument.problems, p._id)

\* C4 as stated: removeContestProblem on an existing contest, for any
\* problemId that is not a member, raises nothing and changes nothing.
C4_RemoveAnyNonMember ==
    [][(/\ last'.op = "removeContestProblem"
        /\ ~IsNull(OwnerOf(last'))
        /\ ~IsMember(OwnerOf(last'), last'.b))
       => (last'.err = NoError /\ db' = db)]_vars

\* C4, amended: removeContestProblem on an existing contest, for the
\* problemId of a stored problem that is not a member, raises nothing and
\* changes nothing.
C4_RemoveStoredNonMember ==
    [][(/\ last'.op = "removeContestProblem"
        /\ ~IsNull(OwnerOf(last'))
        /\ ~IsNull(ReferenceOf(last'))
        /\ ~IsMember(OwnerOf(last'), last'.b))
       => (last'.err = NoError /\ db' = db)]_vars

\* removeContestProblem has just returned for a stored problem that is not
\* a member of the contest, which holds another problem.
C4_RemovedNonMember ==
    /\ last.op = "removeContestProblem"
    /\ last.err = NoError
    /\ ~IsNull(OwnerOf(last))
    /\ ~IsNull(ReferenceOf(last))
    /\ ~IsMember(OwnerOf(last), last.b)
    /\ Len(OwnerOf(last).problems) = 1

----------------------------------------------------------------------------
\* Properties of create, delete and update.

\* The not-found errors of the referenced documents a create names and the
\* store does not hold.
MissingForSubmission(submission) ==
    {e \in {"UserNotFoundError", "ProblemNotFoundError",
            "TestCaseNotFoundError", "ContestNotFoundError"} :
        \/ /\ e = "UserNotFoundError"
           /\ IsNull(FindOne(users, "username", submission.authorUsername))
        \/ /\ e = "ProblemNotFoundError"
           /\ IsNull(FindOne(problems, "problemId", submission.problemId))
        \/ /\ e = "TestCaseNotFoundError"
           /\ submission.failedTestCaseId # Falsy
           /\ IsNull(FindOne(testCases, "testCaseId",
                             submission.failedTestCaseId))
        \/ /\ e = "ContestNotFoundError"
           /\ submission.contestId # Falsy
           /\ IsNull(FindOne(contests, "contestId", submission.contestId))}

MissingUser(username) ==
    IF IsNull(FindOne(users, "username", username))
    THEN {"UserNotFoundError"} ELSE {}

MissingContest(contestId) ==
    IF IsNull(FindOne(contests, "contestId", contestId))
    THEN {"ContestNotFoundError"} ELSE {}

\* What a create must do given the errors of its missing references: fail
\* with one of them and store nothing, or, when it succeeds, have had none.
CreateChecked(missing) ==
    /\ missing # {} => (last'.err \in missing /\ db' = db)
    /\ last'.err = NoError => missing = {}

\* C5: a create whose base names a referenced entity that does not exist
\* fails with the not-found error of a missing entity and stores nothing,
\* so the references of every created document resolved when it was
\* created.
C5_CreateChecksReferences ==
    [][/\ \A c \in NewContests :
            (last'.op = "addContest" /\ AddContest(c))
               => CreateChecked(MissingUser(c.organizerUsername))
       /\ \A c \in NewCollections :
            (last'.op = "addCollection" /\ AddCollection(c))
               => CreateChecked(MissingUser(c.ownerUsername))
       /\ \A sub \in NewSubmissions :
            (last'.op = "addSubmission" /\ AddSubmission(sub))
               => CreateChecked(MissingForSubmission(sub))
       /\ \A c \in ContestIds, a \in NewAnnouncements :
            (last'.op = "addAnnouncement" /\ AddAnnouncement(c, a))
               => CreateChecked(MissingContest(c))
       /\ \A u \in Usernames, d \in NewDetails :
            (last'.op = "addAuthenticationDetail"
             /\ AddAuthenticationDetail(u, d))
               => CreateChecked(MissingUser(u))
       /\ \A sub \in submissions' \ submissions :
            \/ /\ ~IsNull(Populate(users, sub.author))
               /\ ~IsNull(Populate(problems, sub.problem))
               /\ sub.contest # NoRef =>
                     ~IsNull(Populate(contests, sub.contest))
            \/ \E old \in submissions : old._id = sub._id
       /\ \A c \in contests' \ contests :
            \/ ~IsNull(Populate(users, c.organizer))
            \/ \E old \in contests : old._id = c._id
       /\ \A c \in collections' \ collections :
            \/ ~IsNull(Populate(users, c.owner))
            \/ \E old \in collections : old._id = c._id
       /\ \A a \in announcements' \ announcements :
            \/ ~IsNull(Populate(contests, a.ofContestId))
            \/ \E old \in announcements : old._id = a._id
       /\ \A d \in authenticationDetails' \ authenticationDetails :
            \/ ~IsNull(Populate(users, d.ofUserId))
            \/ \E old \in authenticationDetails : old._id = d._id]_vars

\* addSubmission has just failed with TestCaseNotFoundError: its author and
\* its problem exist, its failed test case does not, and nothing is stored.
C5_SubmissionOfMissingTestCase ==
    /\ last.op = "addSubmission"
    /\ last.err = "TestCaseNotFoundError"
    /\ users # {}
    /\ problems # {}
    /\ testCases = {}
    /\ submissions = {}

DeleteOps ==
    {"deleteProblem", "deleteContest", "deleteCollection", "deleteSubmission",
     "deleteTestCase", "deleteAnnouncement", "deleteUser"}

PublicIds ==
    Usernames \cup ProblemIds \cup TestCaseIds \cup ContestIds
    \cup CollectionIds \cup SubmissionIds \cup AnnouncementIds

\* The stored document a delete-by-id names, or null.
DeleteTarget(op, id) ==
    CASE op = "deleteProblem" -> FindOne(problems, "problemId", id)
      [] op = "deleteContest" -> FindOne(contests, "contestId", id)
      [] op = "deleteCollection" -> FindOne(collections, "collectionId", id)
      [] op = "deleteSubmission" -> FindOne(submissions, "submissionId", id)
      [] op = "deleteTestCase" -> FindOne(testCases, "testCaseId", id)
      [] op = "deleteAnnouncement" ->
            FindOne(announcements, "announcementId", id)
      [] op = "deleteUser" -> FindOne(users, "username", id)

\* What the get of the same entity kind returns for the id.
GetAfterDelete(op, id) ==
    CASE op = "deleteProblem" -> GetProblemResult(id, FALSE)
      [] op = "deleteContest" -> GetContestResult(id, GetContestOptions)
      [] op = "deleteCollection" -> GetCollectionResult(id, FALSE)
      [] op = "deleteSubmission" -> GetSubmissionResult(id).ret
      [] op = "deleteTestCase" -> GetTestCaseResult(id)
      [] op = "deleteAnnouncement" -> GetAnnouncementResult(id)
      [] op = "deleteUser" -> GetUserResult(id)

\* C7: delete-by-id never raises; for an id no document has it returns 0
\* and changes nothing, for a stored id it returns 1 and the get of that id
\* then returns null.
C7_DeleteReturnsCount ==
    [][last'.op \in DeleteOps => \A op \in DeleteOps, id \in PublicIds :
          (last'.op = op /\ last'.a = id) =>
             /\ last'.err = NoError
             /\ last'.ret.kind = "count"
             /\ IF IsNull(DeleteTarget(op, id))
                THEN last'.ret.count = 0 /\ db' = db
                ELSE /\ last'.ret.count = 1
                     /\ GetAfterDelete(op, id)' = RetNull]_vars

\* deleteProblem has just returned 1 and getProblem of the id returns null.
C7_DeletedOne ==
    /\ last.op = "deleteProblem"
    /\ last.ret = RetCount(1)
    /\ GetProblemResult(last.a, FALSE) = RetNull

\* C8: update of a stored id returns the entity as it is stored after the
\* patch was applied, its mutable fields being the patch's values; update
\* of an id no document has returns null and changes nothing.
C8_UpdateReturnsUpdatedEntity ==
    [][/\ \A base \in ContestUpdates :
            (last'.op = "updateContest" /\ UpdateContest(base)) =>
               IF IsNull(FindOne(contests, "contestId", base.contestId))
               THEN last'.ret = RetNull /\ db' = db
               ELSE /\ last'.ret =
                         GetContestResult(base.contestId, GetContestOptions)'
                    /\ last'.ret.entity.displayName =
                         trimStringSetter(base.displayName)
                    /\ last'.ret.entity.duration = base.duration
       /\ \A base \in CollectionUpdates :
            (last'.op = "updateCollection" /\ UpdateCollection(base)) =>
               IF IsNull(FindOne(collections, "collectionId",
                                 base.collectionId))
               THEN last'.ret = RetNull /\ db' = db
               ELSE /\ last'.ret =
                         GetCollectionResult(base.collectionId, FALSE)'
                    /\ last'.ret.entity.displayName =
                         trimStringSetter(base.displayName)
                    /\ last'.ret.entity.isPublic = base.isPublic
       /\ \A base \in TestCaseUpdates :
            (last'.op = "updateTestCase" /\ UpdateTestCase(base)) =>
               IF IsNull(FindOne(testCases, "testCaseId", base.testCaseId))
               THEN last'.ret = RetNull /\ db' = db
               ELSE /\ last'.ret = GetTestCaseResult(base.testCaseId)'
                    /\ last'.ret.entity.score = base.score]_vars

\* C9: an update never changes the identifier of the stored document nor
\* its author, organizer or owner (the reference and the stored username),
\* whatever the patch carries for them; the mutable fields take the patch's
\* values.
C9_UpdateKeepsImmutableFields ==
    [][/\ \A base \in ProblemUpdates :
            (last'.op = "updateProblem" /\ UpdateProblem(base)) =>
               \A old \in Matching(problems, "problemId", base.problemId) :
                  \E new \in problems' :
                     /\ new._id = old._id
                     /\ new.problemId = old.problemId
                     /\ new.author = old.author
                     /\ new.displayName = trimStringSetter(base.displayName)
                     /\ new.timeLimit = base.timeLimit
       /\ \A base \in ContestUpdates :
            (last'.op = "updateContest" /\ UpdateContest(base)) =>
               \A old \in Matching(contests, "contestId", base.contestId) :
                  \E new \in contests' :
                     /\ new._id = old._id
                     /\ new.contestId = old.contestId
                     /\ new.organizer = old.organizer
                     /\ new.organizerUsername = old.organizerUsername
                     /\ new.displayName = trimStringSetter(base.displayName)
                     /\ new.duration = base.duration
       /\ \A base \in CollectionUpdates :
            (last'.op = "updateCollection" /\ UpdateCollection(base)) =>
               \A old \in Matching(collections, "collectionId",
                                   base.collectionId) :
                  \E new \in collections' :
                     /\ new._id = old._id
                     /\ new.collectionId = old.collectionId
                     /\ new.owner = old.owner
                     /\ new.ownerUsername = old.ownerUsername
                     /\ new.displayName = trimStringSetter(base.displayName)
                     /\ new.isPublic = base.isPublic
       /\ \A base \in SubmissionUpdates :
            (last'.op = "updateSubmission" /\ UpdateSubmission(base)) =>
               \A old \in Matching(submissions, "submissionId",
                                   base.submissionId) :
                  \E new \in submissions' :
                     /\ new._id = old._id
                     /\ new.submissionId = old.submissionId
                     /\ new.author = old.author
                     /\ new.problem = old.problem
                     /\ new.contest = old.contest
                     /\ base.failedTestCaseId = Falsy =>
                           new.status = base.status
       /\ \A base \in UserUpdates :
            (last'.op = "updateUser" /\ UpdateUser(base)) =>
               \A old \in Matching(users, "username", base.username) :
                  \E new \in users' :
                     /\ new._id = old._id
                     /\ new.username = old.username
                     /\ new.displayName = trimStringSetter(base.displayName)
      ]_vars

\* updateContest has just run with a patch naming another organizer: the
\* stored contest keeps its organizer and holds the patch's display name
\* and duration.
C9_PatchedWithOtherOrganizer ==
    /\ last.op = "updateContest"
    /\ last.b = "mallory"
    /\ \E c \in contests :
          /\ c.contestId = last.a
          /\ c.organizerUsername = "alice_01"
          /\ ~IsNull(Populate(users, c.organizer))
          /\ c.displayName = <<"B">>
          /\ c.duration = 600000

\* C10: updateSubmission of a stored submission with a failedTestCaseId
\* succeeds and stores the reference when the test case exists, and fails
\* with TestCaseNotFoundError, changing nothing, when it does not.
C10_UpdateChecksFailedTestCase ==
    [][\A base \in SubmissionUpdates :
          (/\ last'.op = "updateSubmission"
           /\ UpdateSubmission(base)
           /\ base.failedTestCaseId # Falsy
           /\ ~IsNull(FindOne(submissions, "submissionId",
                              base.submissionId))) =>
             IF ~IsNull(FindOne(testCases, "testCaseId",
                                base.failedTestCaseId))
             THEN /\ last'.err = NoError
                  /\ \E new \in submissions' :
                        /\ new.submissionId = base.submissionId
                        /\ new.failedTestCase =
                             FindOne(testCases, "testCaseId",
                                     base.failedTestCaseId)._id
             ELSE /\ last'.err = "TestCaseNotFoundError"
                  /\ db' = db]_vars

----------------------------------------------------------------------------
\* Properties of concurrent calls.

\* C6: whenever a call of addContestProblem writes the reference, the
\* contest it found and the problem it found are still stored, whatever
\* deleteProblem and deleteContest calls ran meanwhile.
C6_ChecksAndWriteAtomic ==
    [][\A i \in Callers :
          UpdateContestDocument(i) =>
             /\ ~IsNull(Populate(contests, calls[i].contestDocument._id))
             /\ ~IsNull(Populate(problems, calls[i].problemDocument._id))
      ]_vars

----------------------------------------------------------------------------
\* updateSubmission as the promise it returns.  The method builds
\* `new Promise(async (resolve, reject) => {...})`: the caller's await ends
\* only when the executor calls resolve or reject.

\* updateSubmission(submission) is called: the executor starts.
CallUpdateSubmission(i, submission) ==
    /\ calls[i].pc = "idle"
    /\ calls' = [calls EXCEPT ![i] =
                    [pc |-> "executor", submission |-> submission]]
    /\ UNCHANGED <<db, nextOid, last>>

\* `return null` inside the executor: neither resolve nor reject is called
\* and the promise stays pending.
ReturnNull == [pc |-> "pending"]

\* The executor's body: the failed-test-case check, findOneAndUpdate, and
\* what becomes of the promise.
UpdateSubmissionExecutor(i) ==
    LET submission == calls[i].submission
        checkErr == FailedTestCaseCheck(submission.failedTestCaseId)
        updatedDocument == FindOne(submissions, "submissionId",
                                   submission.submissionId)
        written == checkErr = NoError /\ ~IsNull(updatedDocument)
    IN  /\ calls[i].pc = "executor"
        /\ submissions' =
              IF written
              THEN Replace(submissions, updatedDocument,
                     ApplyPatch(updatedDocument, SubmissionPatch(submission)))
              ELSE submissions
        /\ calls' = [calls EXCEPT ![i] =
              IF checkErr # NoError
              THEN [pc |-> "done", err |-> checkErr, ret |-> RetVoid]
              ELSE IF IsNull(updatedDocument) THEN ReturnNull
              ELSE IF SubmissionThrows(updatedDocument)
              THEN [pc |-> "done", err |-> "TypeError", ret |-> RetVoid]
              ELSE [pc |-> "done", err |-> NoError,
                    ret |-> RetEntity(documentToSubmission(updatedDocument))]]
        /\ UNCHANGED <<users, problems, testCases, contests, collections,
                       announcements, authenticationDetails, nextOid, last>>

NextPromise ==
    \/ Return
    \/ \E u \in Users : AddUser(u)
    \/ \E p \in NewProblems : AddProblem(p)
    \/ \E t \in NewTestCases : AddTestCase(t)
    \/ \E s \in NewSubmissions : AddSubmission(s)
    \/ \E s \in SubmissionIds : DeleteSubmission(s)
    \/ \E i \in Callers, s \in SubmissionUpdates : CallUpdateSubmission(i, s)
    \/ \E i \in Callers : UpdateSubmissionExecutor(i)
    \/ \E i \in Callers : Settle(i)

\* The executor of a promise runs to its end, and a caller whose promise
\* has settled goes on.
SpecPromise ==
    /\ Init
    /\ [][NextPromise]_vars
    /\ \A i \in Callers : WF_vars(UpdateSubmissionExecutor(i))
    /\ \A i \in Callers : WF_vars(Settle(i))

\* C11: every call of updateSubmission eventually settles, with null, with
\* the entity or with an error; no promise is left pending.
C11_UpdateSubmissionSettles ==
    \A i \in Callers : (calls[i].pc = "executor") ~> (calls[i].pc = "done")

----------------------------------------------------------------------------
\* The list operations: filterQuery, the asUser condition, sort, skip and
\* limit.

\* null (or an absent option), and a value that is there.
Null == <<>>
Some(v) == <<v>>
Undefined == "undefined"

RetList(entities) == [kind |-> "list", list |-> entities]

\* {path: {$in: list}}, {path: value}, {path: {$gte: lo}}, {path: {$lte: hi}}
\* on a stored document; a path the document does not hold matches none.
\* A slip: an empty list is taken for no filter.
InUnlessEmpty(document, path, list) ==
    list = {} \/ (path \in DOMAIN document /\ document[path] \in list)
In(document, path, list) ==
    path \in DOMAIN document /\ document[path] \in list
Eq(document, path, value) ==
    path \in DOMAIN document /\ document[path] = value
Gte(document, path, lo) == path \in DOMAIN document /\ document[path] >= lo
Lte(document, path, hi) == path \in DOMAIN document /\ document[path] <= hi

\* The condition filterQuery builds from a range option [lo, hi]: $gte and
\* $lte for the bounds that are not null.  With both null the condition is
\* the empty object, which no stored value equals.
RangeCondition(document, path, range) ==
    /\ range[1] # Null => Gte(document, path, range[1][1])
    /\ range[2] # Null => Lte(document, path, range[2][1])
    /\ ~(range[1] = Null /\ range[2] = Null)

\* The empty object as the condition of a Date or Number path of the schema
\* cannot be cast, and the query is rejected.
CastFails(range) == range # Null /\ range[1] = Null /\ range[2] = Null

\* A slip: the asUser condition is left out.
VisibleToAll(document, ownerPath, asUser) == TRUE

\* query.find({$or: [{ownerPath: asUser}, {isPublic: true}]})
VisibleTo(document, ownerPath, asUser) ==
    \/ asUser = Undefined
    \/ Eq(document, ownerPath, asUser)
    \/ Eq(document, "isPublic", TRUE)

\* sort(sortCondition): a is before b.  A path the documents do not hold
\* orders nothing; ties keep the insertion order.
RECURSIVE Before(_, _, _)
Before(a, b, sortFields) ==
    IF sortFields = <<>> THEN a._id < b._id
    ELSE LET item == Head(sortFields)
         IN  IF item.field \notin DOMAIN a \/ a[item.field] = b[item.field]
             THEN Before(a, b, Tail(sortFields))
             ELSE IF item.ascending THEN a[item.field] < b[item.field]
             ELSE a[item.field] > b[item.field]

RECURSIVE Sort(_, _)
Sort(documents, sortFields) ==
    IF documents = {} THEN <<>>
    ELSE LET first == CHOOSE d \in documents :
                         \A e \in documents \ {d} : Before(d, e, sortFields)
         IN  <<first>> \o Sort(documents \ {first}, sortFields)

\* skip(startIndex) when it is not 0, limit(itemCount) when it is not null.
Skip(seq, startIndex) ==
    IF startIndex >= Len(seq) THEN <<>>
    ELSE SubSeq(seq, startIndex + 1, Len(seq))
Limit(seq, itemCount) ==
    IF itemCount = Null \/ itemCount[1] >= Len(seq) THEN seq
    ELSE SubSeq(seq, 1, itemCount[1])

\* What the built query gives: the selected documents, sorted and paged.
Exec(selected, options) ==
    Limit(Skip(Sort(selected,
                    IF options.sortFields = Null THEN <<>>
                    ELSE options.sortFields[1]),
               options.startIndex),
          options.itemCount)

\* filterQuery(options: ContestFilterOptions): the conditions of the query.
ContestConditions(document, options) ==
    /\ options.organizer # Null =>
          In(document, "organizerUsername", options.organizer[1])
    /\ options.format # Null => In(document, "format", options.format[1])
    /\ options.startTime # Null =>
          RangeCondition(document, "startTime", options.startTime)
    /\ options.duration # Null =>
          RangeCondition(document, "duration", options.duration)
    /\ options.isPublic # Null =>
          Eq(document, "isPublic", options.isPublic[1])

ContestQueryError(options) ==
    IF CastFails(options.startTime) \/ CastFails(options.duration)
    THEN "CastError" ELSE NoError

\* The contests getContestList's query selects.
ContestSelected(options, asUser) ==
    {document \in contests :
        /\ ContestConditions(document, options)
        /\ VisibleTo(document, "organizerUsername", asUser)}

GetContestListResult(filterOptions, asUser, getOptions) ==
    IF ContestQueryError(filterOptions) # NoError
    THEN [err |-> ContestQueryError(filterOptions), ret |-> RetVoid]
    ELSE [err |-> NoError,
          ret |-> RetList([i \in 1..Len(Exec(ContestSelected(filterOptions,
                                                             asUser),
                                             filterOptions)) |->
                    documentToContest(
                        Exec(ContestSelected(filterOptions, asUser),
                             filterOptions)[i], getOptions)])]

GetContestList(filterOptions, asUser, getOptions) ==
    /\ Idle
    /\ last' = Outcome("getContestList", "", asUser,
                   GetContestListResult(filterOptions, asUser, getOptions).err,
                   GetContestListResult(filterOptions, asUser, getOptions).ret)
    /\ UNCHANGED <<calls, db, nextOid>>

\* query.estimatedDocumentCount(): the size of the collection, whatever the
\* conditions of the query are.
EstimatedDocumentCount(coll, selected) == Cardinality(coll)

GetContestListCountResult(filterOptions, asUser) ==
    EstimatedDocumentCount(contests, ContestSelected(filterOptions, asUser))

GetContestListCount(filterOptions, asUser) ==
    /\ Idle
    /\ last' = Outcome("getContestListCount", "", asUser, NoError,
                   RetCount(GetContestListCountResult(filterOptions, asUser)))
    /\ UNCHANGED <<calls, db, nextOid>>

\* filterQuery(options: CollectionFilterOptions).  creationDate is not a
\* path of collectionSchema: it is never stored and its condition is sent
\* to the store as it is.
CollectionConditions(document, options) ==
    /\ options.owner # Null => In(document, "ownerUsername", options.owner[1])
    /\ options.creationDate # Null =>
          RangeCondition(document, "creationDate", options.creationDate)
    /\ options.isPublic # Null =>
          Eq(document, "isPublic", options.isPublic[1])

CollectionSelected(options, asUser) ==
    {document \in collections :
        /\ CollectionConditions(document, options)
        /\ VisibleTo(document, "ownerUsername", asUser)}

GetCollectionListResult(filterOptions, asUser, includeProblems) ==
    RetList([i \in 1..Len(Exec(CollectionSelected(filterOptions, asUser),
                                filterOptions)) |->
                documentToCollection(
                    Exec(CollectionSelected(filterOptions, asUser),
                         filterOptions)[i], includeProblems)])

GetCollectionList(filterOptions, asUser, includeProblems) ==
    /\ Idle
    /\ last' = Outcome("getCollectionList", "", asUser, NoError,
                   GetCollectionListResult(filterOptions, asUser,
                                           includeProblems))
    /\ UNCHANGED <<calls, db, nextOid>>

\* The callers of the list operations and what they store.
ListUsernames == Usernames \cup {"bob_02"}
ListUsers == [username : ListUsernames, displayName : {NameA}]
ListContestIds == ContestIds \cup {"c2"}
ListCollectionIds == CollectionIds \cup {"col2"}
ContestProfiles ==
    {[format |-> "IOI", startTime |-> 1, duration |-> 300000],
     [format |-> "ICPC", startTime |-> 2, duration |-> 300000],
     [format |-> "IOI", startTime |-> 2, duration |-> 600000]}
ListContests ==
    {[contestId |-> c, organizerUsername |-> u, displayName |-> NameA,
      format |-> p.format, startTime |-> p.startTime,
      duration |-> p.duration, isPublic |-> b] :
        c \in ListContestIds, u \in ListUsernames, p \in ContestProfiles,
        b \in BOOLEAN}
ListCollections ==
    [collectionId : ListCollectionIds, ownerUsername : ListUsernames,
     displayName : {NameA}, creationDate : {1}, isPublic : BOOLEAN]

\* new ContestFilterOptions()
ContestFilterOptions ==
    [startIndex |-> 0, itemCount |-> Null, organizer |-> Null,
     format |-> Null, startTime |-> Null, duration |-> Null,
     isPublic |-> Null,
     sortFields |-> Some(<<[field |-> "startTime", ascending |-> FALSE]>>)]

\* new CollectionFilterOptions()
CollectionFilterOptions ==
    [startIndex |-> 0, itemCount |-> Null, owner |-> Null,
     creationDate |-> Null, isPublic |-> Null,
     sortFields |-> Some(<<[field |-> "creationDate", ascending |-> FALSE]>>)]

UsernameLists == {Null, Some({}), Some({"alice_01"}), Some(ListUsernames)}
StartTimeRanges ==
    {Null, <<Null, Some(1)>>, <<Some(2), Null>>, <<Null, Null>>}
DurationRanges == {Null, <<Some(300000), Some(300000)>>}
IsPublicFilters == {Null, Some(TRUE), Some(FALSE)}

\* Filters without paging, and the default filter with paging.
ContestFilters ==
    {[ContestFilterOptions EXCEPT !.organizer = o, !.format = f,
                                  !.startTime = s, !.duration = d,
                                  !.isPublic = p] :
        o \in UsernameLists, f \in {Null, Some({"ICPC"})},
        s \in StartTimeRanges, d \in DurationRanges, p \in IsPublicFilters}
ContestPagings ==
    {[ContestFilterOptions EXCEPT !.startIndex = i, !.itemCount = n,
                                  !.sortFields = s] :
        i \in {0, 1}, n \in {Null, Some(1)},
        s \in {Null, ContestFilterOptions.sortFields}}
CollectionFilters ==
    {[CollectionFilterOptions EXCEPT !.owner = o, !.creationDate = c,
                                     !.isPublic = p] :
        o \in UsernameLists, c \in StartTimeRanges, p \in IsPublicFilters}
CollectionPagings ==
    {[CollectionFilterOptions EXCEPT !.startIndex = i, !.itemCount = n] :
        i \in {0, 1}, n \in {Null, Some(1)}}
AsUsers == ListUsernames \cup {Undefined}

NextList ==
    \/ Return
    \/ \E u \in ListUsers : AddUser(u)
    \/ \E c \in ListContests : AddContest(c)
    \/ \E c \in ListCollections : AddCollection(c)
    \/ \E f \in ContestFilters \cup ContestPagings, u \in AsUsers :
           GetContestList(f, u, GetContestOptions)
    \/ \E f \in ContestFilters \cup ContestPagings, u \in AsUsers :
           GetContestListCount(f, u)
    \/ \E f \in CollectionFilters \cup CollectionPagings, u \in AsUsers :
           GetCollectionList(f, u, FALSE)

SpecList == Init /\ [][NextList]_vars

----------------------------------------------------------------------------
\* Properties of the list operations.

\* An entity is private unless its isPublic is true.
IsPrivate(entity) ==
    ~("isPublic" \in DOMAIN entity /\ entity.isPublic = TRUE)

\* The user an entity is organized or owned by.
OwnerName(entity) ==
    IF "organizer" \in DOMAIN entity THEN entity.organizer.username
    ELSE entity.owner.username

\* C12: whatever the other filter options are, a list returned by
\* getContestList or getCollectionList for asUser = u holds no private
\* entity that is organized or owned by a user other than u.
C12_PrivateOnlyToOwner ==
    (/\ last.op \in {"getContestList", "getCollectionList"}
     /\ last.b # Undefined
     /\ last.err = NoError)
    => \A i \in 1..Len(last.ret.list) :
          ~(/\ IsPrivate(last.ret.list[i])
            /\ OwnerName(last.ret.list[i]) # last.b)

\* A list was returned to bob while alice holds a private collection
\* beside a public one.
C12_PrivateHidden ==
    /\ last.op = "getCollectionList"
    /\ last.b = "bob_02"
    /\ Len(last.ret.list) = 1
    /\ \E d \in collections :
          d.ownerUsername = "alice_01" /\ ~d.isPublic
    /\ \E d \in collections :
          d.ownerUsername = "alice_01" /\ d.isPublic

\* The ids of the contests a list result holds.
ListedIds(result) ==
    {result.ret.list[i].contestId : i \in 1..Len(result.ret.list)}

\* C13: once addContest has stored a contest, getContestList with
\* asUser = u and no other filter returns it to its organizer, and to
\* every user when it was created with isPublic = true.
C13_PublicContestListed ==
    [][\A c \in ListContests :
          (/\ last'.op = "addContest"
           /\ last'.err = NoError
           /\ AddContest(c))
          => \A u \in ListUsernames :
                (c.organizerUsername = u \/ c.isPublic)
                => c.contestId \in
                     ListedIds(GetContestListResult(ContestFilterOptions, u,
                                                    GetContestOptions))'
      ]_vars

\* The filter without its paging.
Unpaged(options) == [options EXCEPT !.startIndex = 0, !.itemCount = Null]

\* C14: getContestListCount returns the number of stored contests that
\* satisfy the filter conditions and the asUser condition, which is the
\* length of the list getContestList returns for the same filter without
\* paging, whatever startIndex and itemCount are.
C14_CountIsNumberOfMatches ==
    [][\A f \in ContestFilters \cup ContestPagings, u \in AsUsers :
          (/\ last'.op = "getContestListCount"
           /\ ContestQueryError(f) = NoError
           /\ GetContestListCount(f, u))
          => /\ last'.ret.count = Cardinality(ContestSelected(f, u))
             /\ last'.ret.count =
                  Len(GetContestListResult(Unpaged(f), u,
                                           GetContestOptions).ret.list)
      ]_vars

\* A list-valued filter allows a value: null allows every value, a list
\* allows its members.
ListAllows(filter, value) == filter = Null \/ value \in filter[1]

\* A contest, a collection satisfies the list-valued and isPublic filters.
ContestSatisfies(document, options) ==
    /\ ListAllows(options.organizer, document.organizerUsername)
    /\ ListAllows(options.format, document.format)
    /\ options.isPublic # Null =>
          Eq(document, "isPublic", options.isPublic[1])
CollectionSatisfies(document, options) ==
    /\ ListAllows(options.owner, document.ownerUsername)
    /\ options.isPublic # Null => document.isPublic = options.isPublic[1]

CollectionListedIds(result) ==
    {result.list[i].collectionId : i \in 1..Len(result.list)}

\* C15: a query built from filter options without ranges selects exactly
\* the stored documents that satisfy every populated filter: a null list
\* restricts nothing, any other list (the empty one too) restricts the
\* field to its members, isPublic restricts by equality when it is not
\* null, and the restrictions are ANDed.
C15_FiltersSelectExactly ==
    /\ \A f \in ContestFilters :
          (f.startTime = Null /\ f.duration = Null)
          => ListedIds(GetContestListResult(f, Undefined, GetContestOptions))
               = {d.contestId : d \in {e \in contests :
                                          ContestSatisfies(e, f)}}
    /\ \A f \in CollectionFilters :
          f.creationDate = Null
          => CollectionListedIds(GetCollectionListResult(f, Undefined, FALSE))
               = {d.collectionId : d \in {e \in collections :
                                             CollectionSatisfies(e, f)}}

\* getCollectionList has returned nothing for the empty owner list while a
\* collection is stored.
C15_EmptyListMatchesNothing ==
    /\ last.op = "getCollectionList"
    /\ last.b = Undefined
    /\ collections # {}
    /\ last.ret.list = <<>>
    /\ \E f \in CollectionFilters :
          /\ f.owner = Some({})
          /\ f.creationDate = Null
          /\ f.isPublic = Null
          /\ last.ret = GetCollectionListResult(f, Undefined, FALSE)

\* A range filter [lo, hi] allows a value: null allows every value, and so
\* does a null bound on its side.
InRange(range, value) ==
    \/ range = Null
    \/ /\ range[1] = Null \/ value >= range[1][1]
       /\ range[2] = Null \/ value <= range[2][1]

\* C16: a query built from range filters selects exactly the stored
\* contests whose startTime and duration lie in the ranges, bounds
\* included, a null bound being no bound: [null, T] selects v <= T,
\* [T, null] selects v >= T and [null, null] restricts nothing.
C16_RangeSelectsInclusive ==
    \A f \in ContestFilters :
       (f.organizer = Null /\ f.format = Null /\ f.isPublic = Null)
       => \A d \in contests :
             (/\ InRange(f.startTime, d.startTime)
              /\ InRange(f.duration, d.duration))
             <=> (/\ GetContestListResult(f, Undefined,
                                          GetContestOptions).err = NoError
                  /\ d.contestId \in
                       ListedIds(GetContestListResult(f, Undefined,
                                                      GetContestOptions)))

----------------------------------------------------------------------------
\* Properties of the expanded entities.

\* C17: getContest returns problems, participants and announcements only
\* when their expand flag is set, and a Problem inside the returned
\* problems has no testCases field.
C17_ContestExpandsOnlyOnRequest ==
    [][\A c \in ContestIds, o \in ContestGetOptions :
          (/\ last'.op = "getContest"
           /\ GetContest(c, o)
           /\ last'.ret.kind = "entity")
          => LET contest == last'.ret.entity
             IN  /\ "problems" \in DOMAIN contest <=> o.includeProblems
                 /\ "participants" \in DOMAIN contest
                       <=> o.includeParticipants
                 /\ "announcements" \in DOMAIN contest
                       <=> o.includeAnnouncements
                 /\ o.includeProblems =>
                       \A i \in 1..Len(contest.problems) :
                          "testCases" \notin DOMAIN contest.problems[i]
      ]_vars

----------------------------------------------------------------------------
\* addProblem step by step.  ProblemModel.create validates the document
\* (mongoose-unique-validator queries the collection for the id) and then
\* inserts it; the insert is checked by the unique index that
\* `unique: true` declares.  Neither query is given the session.

\* await mongoose.startSession()
StartAddProblem(i, problem) ==
    /\ calls[i].pc = "idle"
    /\ calls' = [calls EXCEPT ![i] =
                    [pc |-> "findUser", problem |-> problem,
                     author |-> NoRef, err |-> NoError]]
    /\ UNCHANGED <<db, nextOid, last>>

\* await UserModel.findOne({username}).exec(), and the null check
FindAuthor(i) ==
    LET userDocument == FindOne(users, "username",
                                calls[i].problem.authorUsername)
    IN  /\ calls[i].pc = "findUser"
        /\ calls' = [calls EXCEPT ![i] =
              IF IsNull(userDocument)
              THEN [@ EXCEPT !.pc = "done", !.err = "NoSuchUserError"]
              ELSE [@ EXCEPT !.pc = "validate",
                             !.author = userDocument._id]]
        /\ UNCHANGED <<db, nextOid, last>>

\* The document ProblemModel.create builds.
ProblemDocument(problem, author, oid) ==
    [_id |-> oid, problemId |-> problem.problemId, author |-> author,
     displayName |-> trimStringSetter(problem.displayName),
     timeLimit |-> problem.timeLimit, testCases |-> <<>>]

\* create: the validators of problemSchema, the unique validator included
ValidateProblem(i) ==
    /\ calls[i].pc = "validate"
    /\ calls' = [calls EXCEPT ![i] =
          IF ProblemValid(ProblemDocument(calls[i].problem, calls[i].author,
                                          nextOid))
          THEN [@ EXCEPT !.pc = "insert"]
          ELSE [@ EXCEPT !.pc = "done", !.err = "ValidationError"]]
    /\ UNCHANGED <<db, nextOid, last>>

\* A store without the index: every insert is accepted.
NoIndex(coll, key, value) == TRUE

\* The unique index on the path accepts an insert.
UniqueIndex(coll, key, value) == Matching(coll, key, value) = {}

\* create: the insert, which the unique index rejects with a duplicate key
\* error when the id has been stored meanwhile
InsertProblem(i) ==
    LET accepted == UniqueIndex(problems, "problemId",
                                calls[i].problem.problemId)
    IN  /\ calls[i].pc = "insert"
        /\ accepted => nextOid <= MaxOid
        /\ problems' =
              IF accepted
              THEN problems \cup {ProblemDocument(calls[i].problem,
                                                  calls[i].author, nextOid)}
              ELSE problems
        /\ nextOid' = IF accepted THEN nextOid + 1 ELSE nextOid
        /\ calls' = [calls EXCEPT ![i] =
              IF accepted THEN [@ EXCEPT !.pc = "done"]
              ELSE [@ EXCEPT !.pc = "done", !.err = "MongoError"]]
        /\ UNCHANGED <<users, testCases, contests, collections, submissions,
                       announcements, authenticationDetails, last>>

\* Callers of addProblem running beside each other and beside a caller
\* that creates users and contests and deletes problems.
NextCreate ==
    \/ Return
    \/ \E u \in Users : AddUser(u)
    \/ \E c \in NewContests : AddContest(c)
    \/ \E p \in ProblemIds : DeleteProblem(p)
    \/ \E i \in Callers, p \in NewProblems : StartAddProblem(i, p)
    \/ \E i \in Callers : FindAuthor(i)
    \/ \E i \in Callers : ValidateProblem(i)
    \/ \E i \in Callers : InsertProblem(i)
    \/ \E i \in Callers : Settle(i)

SpecCreate == Init /\ [][NextCreate]_vars

----------------------------------------------------------------------------
\* Properties of the identifiers.

\* No two stored documents of a collection share their public id.
UniqueIds ==
    /\ \A a, b \in users : a.username = b.username => a = b
    /\ \A a, b \in problems : a.problemId = b.problemId => a = b
    /\ \A a, b \in contests : a.contestId = b.contestId => a = b

\* The id of caller i's create is stored already.
IdReused(i) ==
    ~IsNull(FindOne(problems, "problemId", calls[i].problem.problemId))

\* C18: ids stay unique under concurrent creates, and a create
\* that reuses a stored id fails with a validation error and leaves the
\* stored problems as they are.
C18_ReusedIdFailsValidation ==
    /\ []UniqueIds
    /\ [][\A i \in Callers :
             ((ValidateProblem(i) \/ InsertProblem(i)) /\ IdReused(i))
             => /\ calls'[i].pc = "done"
                /\ calls'[i].err = "ValidationError"
                /\ problems' = problems
         ]_vars

\* What holds of concurrent creates: ids stay unique; a create that reuses
\* a stored id fails and leaves the stored problems as they are, with a
\* validation error when the id was stored before the create validated and
\* with the store's duplicate key error when it was stored between the
\* validation and the insert.
C18_ReusedIdRejected ==
    /\ []UniqueIds
    /\ [][\A i \in Callers :
             /\ (ValidateProblem(i) /\ IdReused(i))
                => /\ calls'[i].pc = "done"
                   /\ calls'[i].err = "ValidationError"
                   /\ problems' = problems
             /\ (InsertProblem(i) /\ IdReused(i))
                => /\ calls'[i].pc = "done"
                   /\ calls'[i].err = "MongoError"
                   /\ problems' = problems
         ]_vars

\* Two creates of one id ran beside each other: one is stored, the other
\* was rejected by the index.
C18_RejectedByIndex ==
    \E i \in Callers :
       /\ calls[i].pc = "done"
       /\ calls[i].err = "MongoError"
       /\ ~IsNull(FindOne(problems, "problemId", calls[i].problem.problemId))

----------------------------------------------------------------------------
\* Properties of the authentication details.

DetailMutations ==
    {"addAuthenticationDetail", "updateAuthenticationDetail",
     "deleteAuthenticationDetail"}

\* C19: add, update and delete of an authentication detail fail with
\* UserNotFoundError when the user does not exist; update and delete fail
\* with AuthenticationDetailNotFoundError when the user exists and holds no
\* detail of the method; a failing call leaves the stored details as they
\* are.  getAuthenticationDetail returns null in both situations and never
\* raises.
C19_DetailErrorsDistinguished ==
    [][LET userDocument == FindOne(users, "username", last'.a)
           held == DetailsOf(userDocument, last'.b)
       IN  /\ last'.op \in DetailMutations =>
                /\ IsNull(userDocument) => last'.err = "UserNotFoundError"
                /\ (/\ ~IsNull(userDocument)
                    /\ held = {}
                    /\ last'.op # "addAuthenticationDetail")
                   => last'.err = "AuthenticationDetailNotFoundError"
                /\ last'.err # NoError =>
                      authenticationDetails' = authenticationDetails
           /\ last'.op = "getAuthenticationDetail" =>
                /\ last'.err = NoError
                /\ (IsNull(userDocument) \/ held = {}) => last'.ret = RetNull
      ]_vars

\* deleteAuthenticationDetail has failed for a user who exists and holds no
\* detail of the method, while a detail of another user is stored.
C19_DetailMissingUserPresent ==
    /\ last.op = "deleteAuthenticationDetail"
    /\ last.err = "AuthenticationDetailNotFoundError"
    /\ ~IsNull(FindOne(users, "username", last.a))
    /\ authenticationDetails # {}

\* C20: whatever addAuthenticationDetail, updateAuthenticationDetail and
\* deleteAuthenticationDetail calls have run, every user holds at most one
\* stored authentication detail of each method.
C20_OneDetailPerMethod ==
    \A userDocument \in users, method \in Methods :
       Cardinality(DetailsOf(userDocument, method)) <= 1

----------------------------------------------------------------------------
\* Properties of deletes and of the references they leave behind.

\* C21: deleteUser, deleteProblem, deleteContest and deleteTestCase change
\* their own collection only; every document of every other collection is
\* stored afterwards as it was before, dangling references included.
C21_DeleteDoesNotCascade ==
    [][/\ last'.op = "deleteUser" =>
             UNCHANGED <<problems, testCases, contests, collections,
                         submissions, announcements, authenticationDetails>>
       /\ last'.op = "deleteProblem" =>
             UNCHANGED <<users, testCases, contests, collections,
                         submissions, announcements, authenticationDetails>>
       /\ last'.op = "deleteContest" =>
             UNCHANGED <<users, problems, testCases, collections,
                         submissions, announcements, authenticationDetails>>
       /\ last'.op = "deleteTestCase" =>
             UNCHANGED <<users, problems, contests, collections,
                         submissions, announcements, authenticationDetails>>
      ]_vars

\* deleteUser has deleted a user whose authentication detail is still
\* stored.
C21_DetailOutlivesUser ==
    /\ last.op = "deleteUser"
    /\ last.ret = RetCount(1)
    /\ \E d \in authenticationDetails :
          IsNull(Populate(users, d.ofUserId))

----------------------------------------------------------------------------
\* Writes of values the schemas do not allow.

\* A contest shorter than five minutes, a test case with a negative score,
\* a status outside the enumerated set.
InvalidContests ==
    [contestId : ContestIds, organizerUsername : Usernames,
     displayName : {NameA}, format : {"IOI"}, startTime : {1},
     duration : {1}, isPublic : {TRUE}]
InvalidContestUpdates ==
    [contestId : ContestIds, organizerUsername : Usernames,
     displayName : {NameB}, duration : {1}]
InvalidTestCases == [testCaseId : TestCaseIds, score : {-1}]
InvalidSubmissionUpdates ==
    [submissionId : SubmissionIds, authorUsername : Usernames,
     problemId : ProblemIds, contestId : {Falsy},
     status : {"Bogus"}, failedTestCaseId : {Falsy}]

NextValid ==
    \/ Return
    \/ \E u \in Users : AddUser(u)
    \/ \E p \in NewProblems : AddProblem(p)
    \/ \E c \in NewContests \cup InvalidContests : AddContest(c)
    \/ \E c \in ContestUpdates \cup InvalidContestUpdates : UpdateContest(c)
    \/ \E t \in NewTestCases \cup InvalidTestCases : AddTestCase(t)
    \/ \E t \in TestCaseUpdates \cup InvalidTestCases : UpdateTestCase(t)
    \/ \E s \in NewSubmissions : AddSubmission(s)
    \/ \E s \in SubmissionUpdates \cup InvalidSubmissionUpdates :
           UpdateSubmission(s)

SpecValid == Init /\ [][NextValid]_vars

\* C22: every stored document satisfies the constraints of its schema: a
\* submission's status is one of the enumerated statuses, a contest lasts
\* at least 300000 and has the format IOI or ICPC, a problem's timeLimit is
\* at least 100, a test case's score is at least 0.
C22_StoredDocumentsValid ==
    /\ \A d \in submissions : d.status \in getAllSubmissionStatuses
    /\ \A d \in contests :
          d.duration >= MinDuration /\ d.format \in getAllContestFormats
    /\ \A d \in problems : d.timeLimit >= MinTimeLimit
    /\ \A d \in testCases : d.score >= MinScore

----------------------------------------------------------------------------
\* Properties of the sessions of the transactions.

\* C23: a call of addContestProblem that has returned or raised has ended
\* the session it started, whether it succeeded or failed.
C23_SessionEndedOnReturn ==
    \A i \in Callers : calls[i].pc = "done" => calls[i].session = "ended"

----------------------------------------------------------------------------
\* Updates of a submission's status.

TerminalStatuses == {"CE", "TLE", "MLE", "RuntimeError", "WA", "Accepted"}

StatusUpdates ==
    [submissionId : SubmissionIds, authorUsername : Usernames,
     problemId : {"p1"}, contestId : {Falsy},
     status : getAllSubmissionStatuses,
     failedTestCaseId : TestCaseIds \cup {Falsy}]
FirstSubmissions ==
    [submissionId : SubmissionIds, authorUsername : Usernames,
     problemId : {"p1"}, contestId : {Falsy},
     submissionTime : {1},
     status : {"Submitted", "Accepted"}, failedTestCaseId : {Falsy}]

NextStatus ==
    \/ Return
    \/ \E u \in Users : AddUser(u)
    \/ \E p \in NewProblems : AddProblem(p)
    \/ \E p \in ProblemIds : DeleteProblem(p)
    \/ \E s \in SubmissionIds : GetSubmission(s)
    \/ \E s \in FirstSubmissions : AddSubmission(s)
    \/ \E s \in StatusUpdates : UpdateSubmission(s)
    \/ \E s \in SubmissionIds : DeleteSubmission(s)

SpecStatus == Init /\ [][NextStatus]_vars

\* C24: updateSubmission of a stored submission, with no failed test case
\* named, stores the given status whatever the stored status was, a
\* terminal one included; the only error it can raise is the TypeError of
\* a submission whose problem is gone, and the status is stored then too.
C24_AnyStatusStored ==
    [][\A s \in StatusUpdates :
         LET old == FindOne(submissions, "submissionId", s.submissionId)
         IN  (/\ last'.op = "updateSubmission"
              /\ UpdateSubmission(s)
              /\ s.failedTestCaseId = Falsy
              /\ ~IsNull(old))
             => /\ FindOne(submissions, "submissionId", s.submissionId)'.status
                     = s.status
                /\ last'.err = IF SubmissionThrows(old) THEN "TypeError"
                               ELSE NoError]_vars

\* A judged submission was put back to a non-terminal status.
C24_TerminalToNonTerminal ==
    /\ last.op = "updateSubmission"
    /\ last.err = NoError
    /\ last.ret.kind = "entity"
    /\ last.ret.entity.status \in TerminalStatuses
    /\ \E d \in submissions :
          /\ d.submissionId = last.a
          /\ d.status \in getAllSubmissionStatuses \ TerminalStatuses

----------------------------------------------------------------------------
\* getSubmissionList.

\* filterQuery(options: SubmissionFilterOptions).  authorUsername and
\* creationDate are not paths of submissionSchema: they are never stored
\* and their conditions are sent to the store as they are.
SubmissionConditions(document, options) ==
    /\ options.author # Null =>
          In(document, "authorUsername", options.author[1])
    /\ options.status # Null => In(document, "status", options.status[1])
    /\ options.submissionTime # Null =>
          RangeCondition(document, "creationDate", options.submissionTime)

\* query.find({problem: {$subquery: ...}}) when asUser is given: the cast of
\* the condition of an ObjectId path knows no $subquery and throws.
SubmissionQueryError(asUser) ==
    IF asUser # Undefined THEN "Error" ELSE NoError

SubmissionSelected(options) ==
    {document \in submissions : SubmissionConditions(document, options)}

GetSubmissionListResult(filterOptions, asUser) ==
    LET documents == Exec(SubmissionSelected(filterOptions), filterOptions)
    IN  IF SubmissionQueryError(asUser) # NoError
        THEN [err |-> SubmissionQueryError(asUser), ret |-> RetVoid]
        ELSE IF \E i \in 1..Len(documents) : SubmissionThrows(documents[i])
        THEN [err |-> "TypeError", ret |-> RetVoid]
        ELSE [err |-> NoError,
              ret |-> RetList([i \in 1..Len(documents) |->
                                  documentToSubmission(documents[i])])]

GetSubmissionList(filterOptions, asUser) ==
    /\ Idle
    /\ last' = Outcome("getSubmissionList", "", asUser,
                   GetSubmissionListResult(filterOptions, asUser).err,
                   GetSubmissionListResult(filterOptions, asUser).ret)
    /\ UNCHANGED <<calls, db, nextOid>>

SubmissionFilterOptions ==
    [startIndex |-> 0, itemCount |-> Null, author |-> Null, status |-> Null,
     submissionTime |-> Null,
     sortFields |-> Some(<<[field |-> "submissionTime",
                            ascending |-> FALSE]>>)]

ListSubmissionIds == SubmissionIds \cup {"s2"}
ListSubmissions ==
    [submissionId : ListSubmissionIds, authorUsername : Usernames,
     problemId : {"p1"}, contestId : {Falsy}, submissionTime : {1, 2},
     status : {"Submitted"}, failedTestCaseId : {Falsy}]
SubmissionTimeRanges ==
    {Null, <<Null, Some(1)>>, <<Some(2), Null>>, <<Some(1), Some(2)>>,
     <<Null, Null>>}
SubmissionFilters ==
    {[SubmissionFilterOptions EXCEPT !.author = a, !.status = s,
                                     !.submissionTime = t] :
        a \in {Null, Some(Usernames)}, s \in {Null, Some({"Submitted"})},
        t \in SubmissionTimeRanges}

NextSubmissionList ==
    \/ Return
    \/ \E u \in Users : AddUser(u)
    \/ \E p \in NewProblems : AddProblem(p)
    \/ \E p \in ProblemIds : DeleteProblem(p)
    \/ \E s \in ListSubmissions : AddSubmission(s)
    \/ \E s \in ListSubmissionIds : DeleteSubmission(s)
    \/ \E f \in SubmissionFilters, u \in {Undefined} \cup Usernames :
           GetSubmissionList(f, u)

SpecSubmissionList == Init /\ [][NextSubmissionList]_vars

\* C25: a query with a submissionTime range and no other filter selects
\* exactly the stored submissions whose submissionTime lies in the range,
\* bounds included, a null bound being no bound.
C25_SubmissionTimeRangeSelects ==
    \A f \in SubmissionFilters :
       (f.submissionTime # Null /\ f.author = Null /\ f.status = Null)
       => \A d \in submissions :
             InRange(f.submissionTime, d.submissionTime)
             <=> d \in SubmissionSelected(f)

----------------------------------------------------------------------------
\* getContestList step by step: the query, then the expansions of its
\* documents, which Promise.all starts together and which complete in any
\* order.

\* A slip: a value is put in the next free place as its expansion completes.
PlaceInCompletionOrder(results, completed, k, entity) ==
    [results EXCEPT ![Len(completed) + 1] = entity]

\* Promise.all keeps the value of the k-th promise in the k-th place.
Place(results, completed, k, entity) == [results EXCEPT ![k] = entity]

\* const documents = await query.exec(), and documents.map(...) which
\* starts one expansion for each document.
CallGetContestList(i, filterOptions, asUser, getOptions) ==
    LET documents == Exec(ContestSelected(filterOptions, asUser),
                          filterOptions)
    IN  /\ calls[i].pc = "idle"
        /\ ContestQueryError(filterOptions) = NoError
        /\ calls' = [calls EXCEPT ![i] =
              [pc |-> "expand", documents |-> documents,
               getOptions |-> getOptions,
               results |-> [k \in 1..Len(documents) |-> NullDoc],
               completed |-> <<>>]]
        /\ UNCHANGED <<db, nextOid, last>>

Completed(i) == {calls[i].completed[n] : n \in 1..Len(calls[i].completed)}

\* documentToContest(item, getOptions) of the k-th document completes.
ExpandItem(i, k) ==
    /\ calls[i].pc = "expand"
    /\ k \in (1..Len(calls[i].documents)) \ Completed(i)
    /\ calls' = [calls EXCEPT
          ![i].results = Place(@, calls[i].completed, k,
                               documentToContest(calls[i].documents[k],
                                                 calls[i].getOptions)),
          ![i].completed = Append(@, k)]
    /\ UNCHANGED <<db, nextOid, last>>

\* Every expansion has completed: Promise.all resolves and the method
\* returns the results.
ReturnResults(i) ==
    /\ calls[i].pc = "expand"
    /\ Len(calls[i].completed) = Len(calls[i].documents)
    /\ calls' = [calls EXCEPT ![i].pc = "done"]
    /\ UNCHANGED <<db, nextOid, last>>

NextExpand ==
    \/ Return
    \/ \E u \in Users : AddUser(u)
    \/ \E c \in ListContests : AddContest(c)
    \/ \E i \in Callers, f \in ContestPagings :
           CallGetContestList(i, f, Undefined, GetContestOptions)
    \/ \E i \in Callers, k \in 1..MaxOid : ExpandItem(i, k)
    \/ \E i \in Callers : ReturnResults(i)
    \/ \E i \in Callers : Settle(i)

SpecExpand == Init /\ [][NextExpand]_vars

\* C26: the k-th element of the list getContestList returns is the
\* expansion of the k-th document of the sorted and paged query result,
\* in whatever order the expansions completed.
C26_ResultsInQueryOrder ==
    \A i \in Callers :
       calls[i].pc = "done"
       => /\ Len(calls[i].results) = Len(calls[i].documents)
          /\ \A k \in 1..Len(calls[i].documents) :
                calls[i].results[k].contestId
                   = calls[i].documents[k].contestId

\* The expansion of the second document completed before that of the first.
C26_CompletedInReverse ==
    \E i \in Callers :
       /\ calls[i].pc = "done"
       /\ calls[i].completed = <<2, 1>>

----------------------------------------------------------------------------
\* Properties of reads through references whose target was deleted.

\* C27: getSubmission of every stored submission returns an entity and
\* raises nothing, also when the problem it references was deleted.
C27_GetSubmissionReturnsEntity ==
    \A d \in submissions :
       /\ GetSubmissionResult(d.submissionId).err = NoError
       /\ GetSubmissionResult(d.submissionId).ret.kind = "entity"


\* The references of a contest's problems array that no stored problem has.
StaleProblems(document) ==
    {k \in 1..Len(document.problems) :
        IsNull(Populate(problems, document.problems[k]))}

WithProblems ==
    [includeProblems |-> TRUE, includeParticipants |-> FALSE,
     includeAnnouncements |-> FALSE]

\* C28: removeContestProblem of a stored contest and a problem that is no
\* longer stored fails with ProblemNotFoundError and leaves the contests as
\* they are, so a reference to the deleted problem stays in the stored
\* array; the problems list getContest gives for a contest has one entry
\* for each reference that still resolves, each of them a stored problem,
\* and none for a stale reference.
C28_StaleReferenceStaysAndIsOmitted ==
    /\ [](\A d \in contests :
            LET listed == documentToContest(d, WithProblems).problems
            IN  /\ Len(listed)
                     = Len(d.problems) - Cardinality(StaleProblems(d))
                /\ \A k \in 1..Len(listed) :
                      ~IsNull(FindOne(problems, "problemId",
                                      listed[k].problemId)))
    /\ [][\A c \in ContestIds, p \in ProblemIds :
            (/\ last'.op = "removeContestProblem"
             /\ RemoveContestProblem(c, p)
             /\ ~IsNull(FindOne(contests, "contestId", c))
             /\ IsNull(FindOne(problems, "problemId", p)))
            => /\ last'.err = "ProblemNotFoundError"
               /\ contests' = contests]_vars

\* removeContestProblem has failed on a contest that holds a stale
\* reference, and the contest's problems list is shorter than the stored
\* array.
C28_RemoveAfterDeleteFailed ==
    /\ last.op = "removeContestProblem"
    /\ last.err = "ProblemNotFoundError"
    /\ \E d \in contests :
          /\ d.contestId = last.a
          /\ StaleProblems(d) # {}
          /\ Len(documentToContest(d, WithProblems).problems)
                < Len(d.problems)


WithParticipants ==
    [includeProblems |-> FALSE, includeParticipants |-> TRUE,
     includeAnnouncements |-> FALSE]

\* The usernames of the participants getContest gives for a contest.
ParticipantNames(document) ==
    {documentToContest(document, WithParticipants).participants[k].username :
        k \in 1..Len(document.participants)
              \cap 1..Len(documentToContest(document,
                                            WithParticipants).participants)}

\* C29: a user that addUser has just created has no authentication detail,
\* getAuthenticationDetail gives null for each method, and is a participant
\* of no contest, whatever was stored for an earlier user of the same
\* username.
C29_NewUserInheritsNothing ==
    [][\A u \in Users :
         (/\ last'.op = "addUser"
          /\ AddUser(u)
          /\ last'.err = NoError)
         => /\ \A m \in Methods :
                  GetAuthenticationDetailResult(u.username, m)' = RetNull
            /\ \A d \in contests :
                  u.username \notin ParticipantNames(d)']_vars

\* A user was created while a detail and a participation of a deleted user
\* are still stored.
C29_RecreatedBesideStaleReferences ==
    /\ last.op = "addUser"
    /\ last.err = NoError
    /\ \E d \in authenticationDetails : IsNull(Populate(users, d.ofUserId))
    /\ \E d \in contests :
          \E k \in 1..Len(d.participants) :
             IsNull(Populate(users, d.participants[k]))

----------------------------------------------------------------------------
\* addContestParticipant step by step, beside addContestProblem.

\* await mongoose.startSession()
StartParticipantSession(i, contestId, username) ==
    /\ calls[i].pc = "idle"
    /\ calls' = [calls EXCEPT ![i] =
          [pc |-> "findParticipantContest", contestId |-> contestId,
           username |-> username, contestDocument |-> NullDoc,
           problemDocument |-> NullDoc, err |-> NoError,
           session |-> "open"]]
    /\ UNCHANGED <<db, nextOid, last>>

\* await ContestModel.findOne({contestId}).exec(), and the null check
FindParticipantContest(i) ==
    LET contestDocument == FindOne(contests, "contestId", calls[i].contestId)
    IN  /\ calls[i].pc = "findParticipantContest"
        /\ calls' = [calls EXCEPT ![i] =
              IF IsNull(contestDocument)
              THEN [@ EXCEPT !.pc = "done", !.err = "ContestNotFoundError"]
              ELSE [@ EXCEPT !.pc = "findUser",
                             !.contestDocument = contestDocument]]
        /\ UNCHANGED <<db, nextOid, last>>

\* await UserModel.findOne({username}).exec(), and the null check; the
\* method keeps the user in a constant named problemDocument.
FindUser(i) ==
    LET problemDocument == FindOne(users, "username", calls[i].username)
    IN  /\ calls[i].pc = "findUser"
        /\ calls' = [calls EXCEPT ![i] =
              IF IsNull(problemDocument)
              THEN [@ EXCEPT !.pc = "done", !.err = "UserNotFoundError"]
              ELSE [@ EXCEPT !.pc = "updateParticipants",
                             !.problemDocument = problemDocument]]
        /\ UNCHANGED <<db, nextOid, last>>

\* await contestDocument.update({$addToSet: {participants: ...}}), then
\* session.endSession()
UpdateContestParticipants(i) ==
    LET stored == Populate(contests, calls[i].contestDocument._id)
    IN  /\ calls[i].pc = "updateParticipants"
        /\ contests' =
              IF IsNull(stored) THEN contests
              ELSE Replace(contests, stored,
                     [stored EXCEPT !.participants =
                         AddToSet(@, calls[i].problemDocument._id)])
        /\ calls' = [calls EXCEPT ![i].pc = "done", ![i].session = "ended"]
        /\ UNCHANGED <<users, problems, testCases, collections, submissions,
                       announcements, authenticationDetails, nextOid, last>>

NextAdd ==
    \/ Return
    \/ \E u \in ListUsers : AddUser(u)
    \/ \E p \in NewProblems : AddProblem(p)
    \/ \E c \in NewContests : AddContest(c)
    \/ \E i \in Callers, c \in ContestIds, p \in ProblemIds :
           StartSession(i, c, p)
    \/ \E i \in Callers : FindContest(i)
    \/ \E i \in Callers : FindProblem(i)
    \/ \E i \in Callers : UpdateContestDocument(i)
    \/ \E i \in Callers, c \in ContestIds, u \in ListUsernames :
           StartParticipantSession(i, c, u)
    \/ \E i \in Callers : FindParticipantContest(i)
    \/ \E i \in Callers : FindUser(i)
    \/ \E i \in Callers : UpdateContestParticipants(i)
    \/ \E i \in Callers : Settle(i)

SpecAdd == Init /\ [][NextAdd]_vars

\* The array of the call's relation in a stored contest.
AddedTo(i, stored) ==
    IF "username" \in DOMAIN calls[i] THEN stored.participants
    ELSE stored.problems

\* C30: when two calls of addContestProblem, or two calls of
\* addContestParticipant, have both completed without error on the same
\* contest and that contest is still stored, the contest holds the
\* reference of each of the two calls, however their steps were
\* interleaved.
C30_NoLostUpdate ==
    \A i \in Callers : \A j \in Callers \ {i} :
       (/\ calls[i].pc = "done" /\ calls[i].err = NoError
        /\ calls[j].pc = "done" /\ calls[j].err = NoError
        /\ calls[i].contestDocument._id = calls[j].contestDocument._id
        /\ ~IsNull(Populate(contests, calls[i].contestDocument._id)))
       => Contains(AddedTo(i, Populate(contests,
                                       calls[i].contestDocument._id)),
                   calls[i].problemDocument._id)

\* Two calls found the contest with no problems, each added a different
\* problem, and both have completed.
C30_BothAddedToTheSameContest ==
    /\ calls[1].pc = "done" /\ calls[1].err = NoError
    /\ calls[2].pc = "done" /\ calls[2].err = NoError
    /\ "problemId" \in DOMAIN calls[1] /\ "problemId" \in DOMAIN calls[2]
    /\ calls[1].contestDocument = calls[2].contestDocument
    /\ calls[1].contestDocument.problems = <<>>
    /\ calls[1].problemDocument._id # calls[2].problemDocument._id
    /\ ~IsNull(Populate(contests, calls[1].contestDocument._id))
    /\ Len(Populate(contests, calls[1].contestDocument._id).problems) = 2

====
